---- MODULE Spec2Model ----
(***************************************************************************)
(* A model of the request orchestration layer of pdf-assistant             *)
(* (src/hybrid_ai.py, class HybridAI, with src/config.py).                 *)
(*                                                                         *)
(* Strings are sequences of atoms.  An atom is a one-character string, or  *)
(* a fixed phrase of the program (the literal part of an f-string, an      *)
(* exception message) kept as one atom.  Document texts are written one    *)
(* character per atom, so Len, slicing, strip and split act on them as in  *)
(* Python.                                                                 *)
(*                                                                         *)
(* Time is in seconds.  The code reads the clock only through differences  *)
(* (current_time - self.last_request_time), so the model keeps those       *)
(* differences, saturating at MIN_REQUEST_INTERVAL: a value of             *)
(* MIN_REQUEST_INTERVAL reads "at least MIN_REQUEST_INTERVAL seconds ago". *)
(***************************************************************************)
EXTENDS Integers, Sequences, FiniteSets, TLC

(***************************************************************************)
(* Bounds of the model.                                                    *)
(***************************************************************************)
\* the longest a requests.post may take, in seconds (the code's timeout is 30)
MaxDur == 0
\* calls of _make_request_with_fallback made on their own in one behaviour
MaxCalls == 2
\* stands for Config.MAX_SUMMARY_CHARS (100000 in src/config.py, line 38):
\* the longest text get_summary sends as one chunk
MaxSummaryChars == 4
\* stands for Config.MAX_MCQ_CHARS: the longest text generate_mcqs sends
\* unsampled
MaxMcqChars == 50
\* the most questions generate_mcqs is asked for
MaxQuestions == 2
\* stands for Config.MAX_QA_CHARS (30000 in src/config.py, line 40): the
\* longest context answer_question sends whole
MaxQaChars == 2
\* the largest regenerate_count generate_mcqs is called with
MaxRegenerate == 0
\* stands for the 15 of lines 139 and 141 of get_summary: the most chunks
\* it sends
MaxSummaryChunks == 3

(***************************************************************************)
(* src/config.py                                                           *)
(***************************************************************************)
FALLBACK_MODELS == <<"sonar", "sonar reasoning", "sonar deep research">>

RATE_LIMIT_PER_MINUTE == 20

MIN_REQUEST_INTERVAL == 60 \div RATE_LIMIT_PER_MINUTE

\* Config.has_api_keys: at least one of the two tokens is set and non-empty
has_api_keys(k1, k2) == k1 \/ k2

\* Config.validate_config asking for both tokens
validate_config_both(k1, k2) == k1 /\ k2

\* Config.validate_config: TRUE when it returns, FALSE when it raises ValueError
validate_config(k1, k2) == has_api_keys(k1, k2)

(***************************************************************************)
(* Helpers                                                                 *)
(***************************************************************************)
Min(a, b) == IF a <= b THEN a ELSE b

Max(a, b) == IF a >= b THEN a ELSE b

KeyNames == {"key_1", "key_2"}

\* What one requests.post can come to (lines 99-117):
\*   "ok"         HTTP 200 whose JSON body holds choices[0].message.content
\*   "bad_body"   HTTP 200 whose body does not (response.json() or the
\*                subscripts raise inside the try)
\*   "http_error" any status other than 200
\*   "exception"  requests.post raises (timeout, connection error)
Outcomes == {"ok", "bad_body", "http_error", "exception"}

\* a clock difference d seconds later
Later(t, d) == Min(t + d, MIN_REQUEST_INTERVAL)

(***************************************************************************)
(* Python's str operations on sequences of atoms                           *)
(***************************************************************************)
\* the characters str.strip, str.split() and the regex class \s take as
\* whitespace, among those the texts of the model are written with
Whitespace == {" ", "\n", "\t"}

Digits == {"0", "1", "2", "3", "4", "5", "6", "7", "8", "9"}

UpperCase ==
    <<"A", "B", "C", "D", "E", "F", "G", "H", "I", "J", "K", "L", "M",
      "N", "O", "P", "Q", "R", "S", "T", "U", "V", "W", "X", "Y", "Z">>

LowerCase ==
    <<"a", "b", "c", "d", "e", "f", "g", "h", "i", "j", "k", "l", "m",
      "n", "o", "p", "q", "r", "s", "t", "u", "v", "w", "x", "y", "z">>

IsUpper(c) == \E i \in 1 .. 26 : UpperCase[i] = c

IsLower(c) == \E i \in 1 .. 26 : LowerCase[i] = c

IsLetter(c) == IsUpper(c) \/ IsLower(c)

\* str.lower on one character
LowerChar(c) ==
    IF IsUpper(c) THEN LowerCase[CHOOSE i \in 1 .. 26 : UpperCase[i] = c]
                  ELSE c

\* str.lower
Lower(s) == [i \in 1 .. Len(s) |-> LowerChar(s[i])]

\* s[a:b] for 0 <= a, 0 <= b
Slice(s, a, b) == SubSeq(s, a + 1, Min(b, Len(s)))

\* s.startswith(p)
StartsWith(s, p) == Len(s) >= Len(p) /\ SubSeq(s, 1, Len(p)) = p

\* p in s
Contains(s, p) ==
    \E a \in 0 .. Len(s) - Len(p) : SubSeq(s, a + 1, a + Len(p)) = p

\* s.strip()
Strip(s) ==
    LET keep == {i \in 1 .. Len(s) : s[i] \notin Whitespace}
    IN  IF keep = {} THEN <<>>
        ELSE SubSeq(s, CHOOSE i \in keep : \A j \in keep : i <= j,
                       CHOOSE i \in keep : \A j \in keep : i >= j)

\* s.split(sep) for a one-character sep: the pieces between its occurrences
RECURSIVE SplitFrom(_, _, _)
SplitFrom(s, sep, a) ==
    LET hits == {i \in a .. Len(s) : s[i] = sep}
    IN  IF hits = {} THEN <<SubSeq(s, a, Len(s))>>
        ELSE LET h == CHOOSE i \in hits : \A j \in hits : i <= j
             IN  <<SubSeq(s, a, h - 1)>> \o SplitFrom(s, sep, h + 1)

Split(s, sep) == SplitFrom(s, sep, 1)

\* sep.join(list)
RECURSIVE Join(_, _)
Join(list, sep) ==
    IF list = <<>> THEN <<>>
    ELSE IF Len(list) = 1 THEN list[1]
    ELSE list[1] \o sep \o Join(Tail(list), sep)

\* len(s.split()): the number of maximal runs of non-whitespace
WordCount(s) ==
    Cardinality({i \in 1 .. Len(s) :
        s[i] \notin Whitespace /\ (i = 1 \/ s[i - 1] \in Whitespace)})

(***************************************************************************)
(* The regular expressions of _split_at_chapters (lines 235-240) and of    *)
(* _create_fallback_summary (lines 304, 306).  Positions are 1-based here; *)
(* a match is given by the position after its last character, 0 for none.  *)
(***************************************************************************)
\* the first position >= i whose character is not in class
RECURSIVE SkipClass(_, _, _)
SkipClass(s, i, class) ==
    IF i <= Len(s) /\ s[i] \in class THEN SkipClass(s, i + 1, class) ELSE i

\* word\s+\d+ matched at position i, whatever the case of word (re.IGNORECASE)
HeadingNumberEnd(s, i, word) ==
    LET a == i + Len(word)
        b == SkipClass(s, a, Whitespace)
        c == SkipClass(s, b, Digits)
    IN  IF a - 1 <= Len(s) /\ Lower(SubSeq(s, i, a - 1)) = word
           /\ b > a /\ c > b
        THEN c ELSE 0

\* word\s+\d+[:\s] matched at position i (patterns 1, 2 and 4)
HeadingEnd(s, i, word) ==
    LET c == HeadingNumberEnd(s, i, word)
    IN  IF c > 0 /\ c <= Len(s) /\ s[c] \in (Whitespace \cup {":"})
        THEN c + 1 ELSE 0

\* \d+\.\s+[A-Z] matched at position i (pattern 3); with ignore_case the
\* class [A-Z] takes lower-case letters too
NumberedEnd(s, i, ignore_case) ==
    LET a == SkipClass(s, i, Digits)
        b == SkipClass(s, a + 1, Whitespace)
    IN  IF a > i /\ a <= Len(s) /\ s[a] = "." /\ b > a + 1 /\ b <= Len(s)
           /\ (IsUpper(s[b]) \/ (ignore_case /\ IsLower(s[b])))
        THEN b + 1 ELSE 0

ChapterWord == <<"c", "h", "a", "p", "t", "e", "r">>

SectionWord == <<"s", "e", "c", "t", "i", "o", "n">>

\* chapter_patterns (lines 235-240) under re.IGNORECASE: pattern p of the
\* list matched at position i
PatternEnd(s, i, p) ==
    IF p \in {1, 2} THEN HeadingEnd(s, i, ChapterWord)
    ELSE IF p = 3 THEN NumberedEnd(s, i, TRUE)
    ELSE HeadingEnd(s, i, SectionWord)

\* re.finditer(pattern, text): the starts (0-based, as match.start()) of the
\* matches found scanning from position i, each match consuming its text
RECURSIVE FindIter(_, _, _)
FindIter(s, p, i) ==
    IF i > Len(s) THEN {}
    ELSE IF PatternEnd(s, i, p) > 0
         THEN {i - 1} \cup FindIter(s, p, PatternEnd(s, i, p))
         ELSE FindIter(s, p, i + 1)

\* chapter_positions after the sort of line 248: every start as many times
\* as patterns found it, ascending
RECURSIVE SortedPositions(_, _)
SortedPositions(s, pos) ==
    IF pos >= Len(s) THEN <<>>
    ELSE LET times == Cardinality({p \in 1 .. 4 : pos \in FindIter(s, p, 1)})
         IN  [k \in 1 .. times |-> pos] \o SortedPositions(s, pos + 1)

(***************************************************************************)
(* HybridAI._split_at_chapters (lines 230-272)                             *)
(***************************************************************************)
\* the slices of line 252 without the last, shorter one
FixedSlicesWhole(text, max_chars) ==
    [k \in 1 .. (Len(text) \div max_chars) |->
        Slice(text, (k - 1) * max_chars, k * max_chars)]

\* line 252: text[i:i+max_chars] for i in range(0, len(text), max_chars)
FixedSlices(text, max_chars) ==
    [k \in 1 .. ((Len(text) + max_chars - 1) \div max_chars) |->
        Slice(text, (k - 1) * max_chars, k * max_chars)]

\* lines 255-270: the loop over chapter_positions and the last chunk
RECURSIVE CutAtPositions(_, _, _, _, _)
CutAtPositions(text, max_chars, positions, chunks, start) ==
    IF positions = <<>>
    THEN IF start < Len(text)
         THEN Append(chunks, Slice(text, start, Len(text)))
         ELSE chunks
    ELSE LET pos == Head(positions)
         IN  IF pos - start > max_chars
             THEN CutAtPositions(text, max_chars, Tail(positions),
                      Append(chunks, Slice(text, start, start + max_chars)),
                      start + max_chars)
             ELSE IF pos - start > 0
             THEN CutAtPositions(text, max_chars, Tail(positions),
                      Append(chunks, Slice(text, start, pos)), pos)
             ELSE CutAtPositions(text, max_chars, Tail(positions), chunks,
                      start)

NonEmpty(s) == s # <<>>

\* line 272: [chunk.strip() for chunk in chunks if chunk.strip()]
StripAll(chunks) ==
    SelectSeq([k \in 1 .. Len(chunks) |-> Strip(chunks[k])], NonEmpty)

split_at_chapters(text, max_chars) ==
    LET chapter_positions == SortedPositions(text, 0)
    IN  IF chapter_positions = <<>>
        THEN FixedSlices(text, max_chars)
        ELSE StripAll(CutAtPositions(text, max_chars, chapter_positions,
                                     <<>>, 0))

(***************************************************************************)
(* HybridAI._split_text_into_chunks (lines 201-228)                        *)
(***************************************************************************)
\* lines 209-219: the loop over the lines and the last chunk
RECURSIVE AccumulateLines(_, _, _, _)
AccumulateLines(lines, max_chars, chunks, current_chunk) ==
    IF lines = <<>>
    THEN IF Strip(current_chunk) # <<>>
         THEN Append(chunks, Strip(current_chunk))
         ELSE chunks
    ELSE LET line == Head(lines)
         IN  IF Len(current_chunk \o line) > max_chars /\ current_chunk # <<>>
             THEN AccumulateLines(Tail(lines), max_chars,
                      Append(chunks, Strip(current_chunk)), line \o <<"\n">>)
             ELSE AccumulateLines(Tail(lines), max_chars, chunks,
                      current_chunk \o line \o <<"\n">>)

\* _split_text_into_chunks filling every chunk one character beyond max_chars
split_text_into_chunks_loose(text, max_chars) ==
    LET chunks == AccumulateLines(Split(text, "\n"), max_chars + 1, <<>>, <<>>)
    IN  IF Len(chunks) = 1 /\ Len(text) > max_chars
           /\ Len(split_at_chapters(text, max_chars)) > 1
        THEN split_at_chapters(text, max_chars)
        ELSE chunks

split_text_into_chunks(text, max_chars) ==
    LET chunks == AccumulateLines(Split(text, "\n"), max_chars, <<>>, <<>>)
    IN  IF Len(chunks) = 1 /\ Len(text) > max_chars
           /\ Len(split_at_chapters(text, max_chars)) > 1
        THEN split_at_chapters(text, max_chars)
        ELSE chunks

(***************************************************************************)
(* HybridAI._combine_chunks_to_limit (lines 274-287)                       *)
(***************************************************************************)
BlankLine == <<"\n", "\n">>

\* _combine_chunks_to_limit without the early return of lines 276-277
combine_chunks_to_limit_always(chunks, max_chunks) ==
    LET combine_factor == (Len(chunks) \div max_chunks) + 1
    IN  [g \in 1 .. ((Len(chunks) + combine_factor - 1) \div combine_factor) |->
            Join(SubSeq(chunks, (g - 1) * combine_factor + 1,
                        Min(g * combine_factor, Len(chunks))),
                 BlankLine)]

\* _combine_chunks_to_limit with combine_factor = len(chunks) // max_chunks
combine_chunks_to_limit_floor(chunks, max_chunks) ==
    IF Len(chunks) <= max_chunks THEN chunks
    ELSE LET combine_factor == Len(chunks) \div max_chunks
         IN  [g \in 1 .. ((Len(chunks) + combine_factor - 1) \div combine_factor) |->
                 Join(SubSeq(chunks, (g - 1) * combine_factor + 1,
                             Min(g * combine_factor, Len(chunks))),
                      BlankLine)]

combine_chunks_to_limit(chunks, max_chunks) ==
    IF Len(chunks) <= max_chunks THEN chunks
    ELSE LET combine_factor == (Len(chunks) \div max_chunks) + 1
         IN  [g \in 1 .. ((Len(chunks) + combine_factor - 1) \div combine_factor) |->
                 Join(SubSeq(chunks, (g - 1) * combine_factor + 1,
                             Min(g * combine_factor, Len(chunks))),
                      BlankLine)]

(***************************************************************************)
(* HybridAI._create_fallback_summary (lines 289-334)                       *)
(***************************************************************************)
\* line 310: the terms looked for in line.lower()
KeyTerms ==
    { <<"d", "e", "f", "i", "n", "i", "t", "i", "o", "n">>,
      <<"d", "i", "a", "g", "n", "o", "s", "i", "s">>,
      <<"t", "r", "e", "a", "t", "m", "e", "n", "t">>,
      <<"s", "y", "m", "p", "t", "o", "m", "s">>,
      <<"c", "a", "u", "s", "e", "s">>,
      <<"r", "i", "s", "k">>,
      <<"m", "a", "n", "a", "g", "e", "m", "e", "n", "t">> }

\* lines 304-307: the stripped line is taken as a chapter title
IsChapterTitle(line) ==
    \/ HeadingNumberEnd(line, 1, ChapterWord) > 0
    \/ NumberedEnd(line, 1, FALSE) > 0

\* line 310: the stripped line is taken as a key sentence
IsKeySentence(line) ==
    Len(line) > 20 /\ \E term \in KeyTerms : Contains(Lower(line), term)

create_fallback_summary(text, chunk_num, total_chunks) ==
    LET lines == Split(text, "\n")
        stripped == SelectSeq([k \in 1 .. Len(lines) |-> Strip(lines[k])],
                              NonEmpty)
        chapter_titles == SelectSeq(stripped, IsChapterTitle)
        key_sentences == SelectSeq(stripped, IsKeySentence)
        words == WordCount(text)
        heading ==
            IF chapter_titles # <<>>
            THEN <<"##", " Chapter ", ToString(chunk_num), ": ">>
                     \o chapter_titles[1]
            ELSE <<"##", " Section ", ToString(chunk_num),
                   ": Content Overview">>
        key_points ==
            IF key_sentences # <<>>
            THEN << <<"###", " Key Points:">> >>
                 \o [k \in 1 .. Min(5, Len(key_sentences)) |->
                        <<ToString(k), ". ">> \o key_sentences[k]]
            ELSE <<>>
        overview ==
            IF words > 100
            THEN << <<"\n", "###", " Content Overview:">>,
                    <<"This section contains approximately ",
                      ToString(words), " words covering medical content.">>,
                    <<"The text includes definitions, diagnostic criteria, treatment approaches, and clinical guidelines.">> >>
            ELSE <<>>
    IN  Join(<<heading>> \o key_points \o overview, BlankLine)

(***************************************************************************)
(* JSON values, and a response text as the sequence of its tokens          *)
(***************************************************************************)
\* what json.loads makes of a string, a number, an array and an object
JStr(s) == [t |-> "str", v |-> s]

JNum(n) == [t |-> "num", v |-> n]

JArr(a) == [t |-> "arr", v |-> a]

JObj(f) == [t |-> "obj", v |-> f]

\* the tokens of a response: the two brackets, the comma, a stretch of text
\* that holds no bracket, and a JSON value written out in full
LB == [t |-> "["]

RB == [t |-> "]"]

COMMA == [t |-> ","]

TXT == [t |-> "txt"]

IsJsonValue(tok) == tok.t \in {"str", "num", "arr", "obj"}

\* response.find(c): the 0-based position of the first c, -1 without one
Find(resp, c) ==
    LET hits == {i \in 1 .. Len(resp) : resp[i].t = c}
    IN  IF hits = {} THEN -1
        ELSE (CHOOSE i \in hits : \A j \in hits : i <= j) - 1

\* response.rfind(c): the 0-based position of the last c, -1 without one
RFind(resp, c) ==
    LET hits == {i \in 1 .. Len(resp) : resp[i].t = c}
    IN  IF hits = {} THEN -1
        ELSE (CHOOSE i \in hits : \A j \in hits : i >= j) - 1

\* json.loads fails
NoValue == [ok |-> FALSE, value |-> JNum(0), next |-> 0]

\* the JSON decoder at token i: a value written out in full, or an array of
\* values between brackets, separated by commas; next is the token after it
RECURSIVE ParseValue(_, _), ParseItems(_, _, _)
ParseValue(toks, i) ==
    IF i > Len(toks) THEN NoValue
    ELSE IF IsJsonValue(toks[i])
    THEN [ok |-> TRUE, value |-> toks[i], next |-> i + 1]
    ELSE IF toks[i].t # "[" THEN NoValue
    ELSE IF i + 1 <= Len(toks) /\ toks[i + 1].t = "]"
    THEN [ok |-> TRUE, value |-> JArr(<<>>), next |-> i + 2]
    ELSE ParseItems(toks, i + 1, <<>>)

ParseItems(toks, i, items) ==
    LET item == ParseValue(toks, i)
    IN  IF ~item.ok \/ item.next > Len(toks) THEN NoValue
        ELSE IF toks[item.next].t = ","
        THEN ParseItems(toks, item.next + 1, Append(items, item.value))
        ELSE IF toks[item.next].t = "]"
        THEN [ok |-> TRUE, value |-> JArr(Append(items, item.value)),
              next |-> item.next + 1]
        ELSE NoValue

\* json.loads(json_str): one value and nothing after it, or JSONDecodeError
\* (ok is FALSE)
json_loads(toks) ==
    LET decoded == ParseValue(toks, 1)
    IN  IF decoded.ok /\ decoded.next = Len(toks) + 1 THEN decoded
        ELSE NoValue

\* a == b on decoded values
JEq(a, b) == a.t = b.t /\ a = b

\* len(o) is defined
Sized(o) == o.t \in {"arr", "str", "obj"}

\* len(o)
PyLen(o) == IF o.t = "obj" THEN Cardinality(DOMAIN o.v) ELSE Len(o.v)

\* a in o raises TypeError
InRaises(a, o) ==
    \/ o.t = "str" /\ a.t # "str"
    \/ o.t = "obj" /\ a.t \in {"arr", "obj"}

\* a in o
PyIn(a, o) ==
    IF o.t = "arr" THEN \E i \in 1 .. Len(o.v) : JEq(o.v[i], a)
    ELSE IF o.t = "str" THEN a.t = "str" /\ Contains(o.v, a.v)
    ELSE a.t = "str" /\ Len(a.v) = 1 /\ a.v[1] \in DOMAIN o.v

VARIABLES
    api_key_1,          \* self.api_key_1 is set and non-empty
    api_key_2,          \* self.api_key_2 is set and non-empty
    ai_available,       \* HybridAI() was constructed (main.py, lines 13-33)
    key_usage,          \* self.key_usage[k].requests / .errors
    since_last_used,    \* time.time() - self.key_usage[k]['last_used']
    since_last_request, \* time.time() - self.last_request_time
    pc,                 \* where _make_request_with_fallback stands
    caller,             \* the call site of _make_request_with_fallback
    prompt,             \* its argument prompt: what the template is filled with
    models_to_try,      \* its local models_to_try
    attempt,            \* its loop variable attempt
    model_idx,          \* index in models_to_try of model_to_try (1-based)
    key_name,           \* its local key_name
    response,           \* what it returned, or the exception it raised
    text,               \* get_summary: its argument text
    chunks,             \* get_summary: its local chunks
    chunk_i,            \* get_summary: its loop variable i
    summaries,          \* get_summary: its local summaries
    api_failures,       \* get_summary: its local api_failures
    progress_callback,  \* get_summary: a progress_callback was passed
    progress_log,       \* the fractions the callback was called with
    chunk_raised,       \* get_summary: per chunk so far, did its request raise
    combine_calls,      \* get_summary: calls of _combine_summaries made
    num_questions,      \* generate_mcqs: its argument num_questions
    regenerate_count,   \* generate_mcqs: its argument regenerate_count
    mcq_text,           \* generate_mcqs: its local text once sampled
    arg_max_chars,      \* _split_text_into_chunks: its argument max_chars
    arg_max_chunks,     \* _combine_chunks_to_limit: its argument max_chunks
    limit_input,        \* _combine_chunks_to_limit: its argument chunks
    threads,            \* concurrent callers: the locals of each one's call
    since_last_grant,   \* time since _get_available_api_key last returned
    grant_gap,          \* since_last_grant as it was when it last returned
    calls,              \* top-level calls made so far
    result,             \* what the latest top-level call gave its caller
    \* history of the executor call in progress, read by the properties only
    post_log,           \* <<key_name, model>> of every requests.post issued
    seen,               \* per key: did a post on it succeed, did one fail
    seen_200,           \* a post of this call was answered with HTTP 200
    last_outcome,       \* the outcome of the latest requests.post
    last_content,       \* the text the transport answered it with
    usage_at_call,      \* key_usage when the call started
    executor_calls,     \* calls of _make_request_with_fallback so far
    since_last_post,    \* time since the previous requests.post was issued
    last_gap,           \* since_last_post as it was when the latest was issued
    last_step           \* what the latest step did

config_vars == <<api_key_1, api_key_2, ai_available>>

pool_vars == <<key_usage, since_last_used, since_last_request>>

exec_vars == <<pc, caller, prompt, models_to_try, attempt, model_idx, key_name,
               response>>

call_hist_vars == <<post_log, seen, seen_200, last_outcome, last_content,
                    usage_at_call, executor_calls>>

summary_vars == <<text, chunks, chunk_i, summaries, api_failures,
                  progress_callback, progress_log, chunk_raised,
                  combine_calls>>

mcq_vars == <<num_questions, regenerate_count, mcq_text>>

split_vars == <<arg_max_chars, arg_max_chunks, limit_input>>

thread_vars == <<threads, since_last_grant, grant_gap>>

pipeline_vars == <<summary_vars, mcq_vars, split_vars, thread_vars>>

vars == <<config_vars, pool_vars, exec_vars, pipeline_vars, calls, result,
          call_hist_vars, since_last_post, last_gap, last_step>>

(***************************************************************************)
(* HybridAI.__init__ (lines 10-29)                                         *)
(***************************************************************************)
\* self.key_usage as set up by the constructor
InitialUsage == [k \in KeyNames |-> [requests |-> 0, errors |-> 0]]

(***************************************************************************)
(* HybridAI._get_available_api_key (lines 31-54)                           *)
(***************************************************************************)
\* lines 36-37: how long the gate sleeps when since seconds have passed
GateWait(since) ==
    IF since < MIN_REQUEST_INTERVAL THEN MIN_REQUEST_INTERVAL - since ELSE 0

\* lines 48-49: requests + errors * 10
KeyScore(u) == u.requests + (u.errors * 10)

\* SelectKey with the comparison of line 51 strict: a tie goes to key_2
SelectKeyTieSecond(k1, k2, usage) ==
    IF ~k1 /\ k2 THEN "key_2"
    ELSE IF ~k2 /\ k1 THEN "key_1"
    ELSE IF ~k1 /\ ~k2 THEN "raise"
    ELSE IF KeyScore(usage["key_1"]) < KeyScore(usage["key_2"])
         THEN "key_1"
         ELSE "key_2"

\* lines 39-54: the key_name returned; "raise" when line 45 raises
SelectKey(k1, k2, usage) ==
    IF ~k1 /\ k2 THEN "key_2"
    ELSE IF ~k2 /\ k1 THEN "key_1"
    ELSE IF ~k1 /\ ~k2 THEN "raise"
    ELSE IF KeyScore(usage["key_1"]) <= KeyScore(usage["key_2"])
         THEN "key_1"
         ELSE "key_2"

(***************************************************************************)
(* HybridAI._update_usage (lines 56-63)                                    *)
(***************************************************************************)
\* UpdateUsage counting the request on every credential
UpdateUsageEveryKey(usage, k, success) ==
    [n \in KeyNames |-> [requests |-> usage[n].requests + 1,
                         errors   |-> IF success THEN usage[n].errors
                                                 ELSE usage[n].errors + 1]]

\* UpdateUsage counting every request as an error
UpdateUsageAlwaysError(usage, k, success) ==
    [usage EXCEPT ![k] = [requests |-> @.requests + 1,
                          errors   |-> @.errors + 1]]

\* UpdateUsage counting the request only when it succeeded
UpdateUsageSuccessOnly(usage, k, success) ==
    [usage EXCEPT ![k] = [requests |-> IF success THEN @.requests + 1
                                                  ELSE @.requests,
                          errors   |-> IF success THEN @.errors
                                                  ELSE @.errors + 1]]

\* lines 59, 61-62 on self.key_usage
UpdateUsage(usage, k, success) ==
    [usage EXCEPT ![k] = [requests |-> @.requests + 1,
                          errors   |-> IF success THEN @.errors
                                                  ELSE @.errors + 1]]

\* d seconds pass (a sleep, or the time a request takes)
Elapse(d) ==
    /\ since_last_request' = Later(since_last_request, d)
    /\ since_last_used' = [n \in KeyNames |-> Later(since_last_used[n], d)]
    /\ since_last_post' = Later(since_last_post, d)

(***************************************************************************)
(* HybridAI._make_request_with_fallback (lines 65-124)                     *)
(***************************************************************************)
\* max_retries with one attempt too many
max_retries_plus_one == 2 + 1

\* line 72
max_retries == 2

\* line 78, around the message of line 45
NoKeysError == <<"No API keys available: ", "No API keys available">>

\* line 124
AllFailedError ==
    <<"All API keys and models failed after ", ToString(max_retries),
      " attempts">>

\* RecordsFailure with a body that does not hold the content taken for good
RecordsFailureRaisedOnly(outcome) == outcome = "exception"

\* lines 114-117 run for an outcome that raises inside the try; a status
\* other than 200 goes through the else of lines 110-112, which records nothing
RecordsFailure(outcome) == outcome \in {"bad_body", "exception"}

NothingSeen == [k \in KeyNames |-> [ok |-> FALSE, failed |-> FALSE]]

\* lines 67-72: the call starts; model is "None" or a model name
BeginCall(who, model, p) ==
    /\ caller' = who
    /\ prompt' = p
    /\ models_to_try' = IF model = "None" THEN FALLBACK_MODELS ELSE <<model>>
    /\ attempt' = 0
    /\ model_idx' = 0
    /\ key_name' = "none"
    /\ response' = <<>>
    /\ pc' = "select"
    /\ post_log' = <<>>
    /\ seen' = NothingSeen
    /\ seen_200' = FALSE
    /\ last_outcome' = "none"
    /\ last_content' = <<>>
    /\ usage_at_call' = key_usage
    /\ executor_calls' = executor_calls + 1

\* lines 74-78: the top of the outer loop, through _get_available_api_key
Select ==
    /\ pc = "select"
    /\ Elapse(GateWait(since_last_request))
    /\ LET k == SelectKey(api_key_1, api_key_2, key_usage)
       IN  IF k = "raise"
           THEN /\ pc' = "raised"
                /\ response' = NoKeysError
                /\ UNCHANGED <<key_name, model_idx>>
           ELSE /\ pc' = "request"
                /\ key_name' = k
                /\ model_idx' = 1
                /\ UNCHANGED response
    /\ last_step' = "select"
    /\ UNCHANGED <<config_vars, key_usage, caller, prompt, models_to_try,
                   attempt, pipeline_vars, calls, result, call_hist_vars,
                   last_gap>>

\* lines 81-124: one pass of the inner loop for model_to_try, and what
\* follows it when it was the last model: the sleep and the next attempt,
\* or the raise.  The post takes d seconds.
Post(outcome, d, content) ==
    /\ pc = "request"
    /\ post_log' = Append(post_log, <<key_name, models_to_try[model_idx]>>)
    /\ seen' = [seen EXCEPT ![key_name] =
                    IF outcome = "ok" THEN [@ EXCEPT !.ok = TRUE]
                                      ELSE [@ EXCEPT !.failed = TRUE]]
    /\ seen_200' = (seen_200 \/ outcome \in {"ok", "bad_body"})
    /\ last_outcome' = outcome
    /\ last_content' = content
    /\ last_gap' = since_last_post
    /\ last_step' = "post"
    /\ LET recorded == outcome = "ok" \/ RecordsFailure(outcome)
           last_model == model_idx = Len(models_to_try)
           retry == outcome # "ok" /\ last_model /\ attempt < max_retries - 1
           \* time.sleep(1) of line 121
           nap == IF retry THEN 1 ELSE 0
       IN  /\ key_usage' =
                  IF recorded THEN UpdateUsage(key_usage, key_name, outcome = "ok")
                              ELSE key_usage
           \* lines 58, 60, 63: current_time is the time the answer came
           /\ since_last_request' =
                  IF recorded THEN Later(0, nap)
                              ELSE Later(since_last_request, d + nap)
           /\ since_last_used' =
                  [n \in KeyNames |->
                      IF recorded /\ n = key_name
                      THEN Later(0, nap)
                      ELSE Later(since_last_used[n], d + nap)]
           /\ since_last_post' = Later(0, d + nap)
           /\ IF outcome = "ok"
              THEN /\ pc' = "returned"
                   /\ response' = content
                   /\ UNCHANGED <<attempt, model_idx>>
              ELSE IF ~last_model
              THEN /\ pc' = "request"
                   /\ model_idx' = model_idx + 1
                   /\ UNCHANGED <<attempt, response>>
              ELSE IF retry
              THEN /\ pc' = "select"
                   /\ attempt' = attempt + 1
                   /\ UNCHANGED <<model_idx, response>>
              ELSE /\ pc' = "raised"
                   /\ response' = AllFailedError
                   /\ UNCHANGED <<attempt, model_idx>>
    /\ UNCHANGED <<config_vars, caller, prompt, models_to_try, key_name,
                   pipeline_vars, calls, result, usage_at_call,
                   executor_calls>>

\* a one-atom JSON string
S(x) == JStr(<<x>>)

Question(q, options, answer) ==
    JObj([question |-> S(q), options |-> options, answer |-> answer])

FourOptions == JArr(<<S("a"), S("b"), S("c"), S("d")>>)

\* the texts a model may answer the prompt of generate_mcqs with
McqReplies ==
    { <<TXT>>,
      <<TXT, LB, Question("q1", FourOptions, S("a")), COMMA,
        Question("q2", FourOptions, S("b")), COMMA,
        Question("q3", FourOptions, S("c")), RB, TXT>>,
      <<LB, Question("q1", JArr(<<S("a"), S("b"), S("c")>>), S("a")), COMMA,
        Question("q2", FourOptions, S("d")), COMMA,
        Question("q3", FourOptions, S("e")), COMMA,
        JNum(1), COMMA,
        JObj([question |-> S("q4"), options |-> FourOptions]), RB>>,
      <<LB, Question("q1", FourOptions, S("a"))>>,
      <<LB, TXT, RB>>,
      <<LB, Question("q1", JNum(4), S("a")), RB>>,
      <<LB, RB>>,
      <<TXT, LB, S("a"), COMMA, S("b"), COMMA, S("c"), COMMA, S("d"), RB,
        TXT>>,
      <<LB, Question("q1", JStr(<<"a", "b", "c", "d">>), S("c")), RB>> }

\* the text a model may answer a direct call with
DirectReplies == {<<"a">>, <<"b">>}

\* the text a model may answer a summary prompt with: a summary under a
\* heading, or a text that begins like the message of line 383
SummaryReplies ==
    { <<"##", " Chapter/Section: ", "s">>,
      <<"Error processing chunk", " ", "s">> }

\* the answers the transport may give to a prompt of this call site
Replies(who) ==
    IF who \in {"chunk", "single", "combine"} THEN SummaryReplies
    ELSE IF who = "mcq" THEN McqReplies
    ELSE DirectReplies

\* one requests.post with any outcome the transport can produce
PostAny ==
    \E o \in Outcomes, d \in 0 .. MaxDur :
        \E c \in (IF o = "ok" THEN Replies(caller) ELSE {<<>>}) :
            Post(o, d, c)

\* the call has ended and has not yet been handed to its call site
CallEnded == pc \in {"returned", "raised"}

(***************************************************************************)
(* The executor called on its own, as the tests of the retry policy do     *)
(***************************************************************************)
NoPrompt == [kind |-> "direct", body |-> <<>>, num |-> 0, total |-> 0]

\* a second passes while nothing is called
Tick ==
    /\ pc = "idle"
    /\ calls < MaxCalls
    /\ \/ since_last_request < MIN_REQUEST_INTERVAL
       \/ since_last_post < MIN_REQUEST_INTERVAL
       \/ \E n \in KeyNames : since_last_used[n] < MIN_REQUEST_INTERVAL
    /\ Elapse(1)
    /\ last_step' = "tick"
    /\ UNCHANGED <<config_vars, key_usage, exec_vars, pipeline_vars, calls,
                   result, call_hist_vars, last_gap>>

\* _make_request_with_fallback(prompt, model)
CallExecute ==
    /\ pc = "idle"
    /\ ai_available
    /\ calls < MaxCalls
    /\ \E model \in {"None", "sonar"} : BeginCall("direct", model, NoPrompt)
    /\ calls' = calls + 1
    /\ last_step' = "call"
    /\ UNCHANGED <<config_vars, pool_vars, pipeline_vars, result,
                   since_last_post, last_gap>>

\* the call returns its content or raises to the caller
ExecuteDone ==
    /\ CallEnded
    /\ caller = "direct"
    /\ result' = [raised |-> pc = "raised", value |-> response]
    /\ pc' = "idle"
    /\ last_step' = "done"
    /\ UNCHANGED <<config_vars, pool_vars, caller, prompt, models_to_try,
                   attempt, model_idx, key_name, response, pipeline_vars,
                   calls, call_hist_vars, since_last_post, last_gap>>

(***************************************************************************)
(* The orchestrator after construction, and the executor's behaviours      *)
(***************************************************************************)
NoResult == [raised |-> FALSE, value |-> <<>>]

\* the callers that share the orchestrator when it is used concurrently
Threads == {1, 2}

\* a caller that has made no call
IdleThread ==
    [pc |-> "idle", calls |-> 0, remaining |-> 0, models_to_try |-> <<>>,
     attempt |-> 0, model_idx |-> 0, key_name |-> "none", ended |-> "none"]

Init ==
    /\ api_key_1 \in BOOLEAN
    /\ api_key_2 \in BOOLEAN
    /\ ai_available = validate_config(api_key_1, api_key_2)
    /\ key_usage = InitialUsage
    /\ since_last_used = [k \in KeyNames |-> MIN_REQUEST_INTERVAL]
    /\ since_last_request = MIN_REQUEST_INTERVAL
    /\ pc = "idle"
    /\ caller = "none"
    /\ prompt = NoPrompt
    /\ models_to_try = <<>>
    /\ attempt = 0
    /\ model_idx = 0
    /\ key_name = "none"
    /\ response = <<>>
    /\ text = <<>>
    /\ chunks = <<>>
    /\ chunk_i = 0
    /\ summaries = <<>>
    /\ api_failures = 0
    /\ progress_callback = FALSE
    /\ progress_log = <<>>
    /\ chunk_raised = <<>>
    /\ combine_calls = 0
    /\ num_questions = 0
    /\ regenerate_count = 0
    /\ mcq_text = <<>>
    /\ arg_max_chars = 0
    /\ arg_max_chunks = 0
    /\ limit_input = <<>>
    /\ threads = [t \in Threads |-> IdleThread]
    /\ since_last_grant = MIN_REQUEST_INTERVAL
    /\ grant_gap = MIN_REQUEST_INTERVAL
    /\ calls = 0
    /\ result = NoResult
    /\ post_log = <<>>
    /\ seen = NothingSeen
    /\ seen_200 = FALSE
    /\ last_outcome = "none"
    /\ last_content = <<>>
    /\ usage_at_call = InitialUsage
    /\ executor_calls = 0
    /\ since_last_post = MIN_REQUEST_INTERVAL
    /\ last_gap = MIN_REQUEST_INTERVAL
    /\ last_step = "init"

Next ==
    \/ Tick
    \/ CallExecute
    \/ Select
    \/ PostAny
    \/ ExecuteDone

Spec == Init /\ [][Next]_vars

(***************************************************************************)
(* HybridAI._process_chunk_summary (lines 336-383)                         *)
(***************************************************************************)
\* lines 338-374: the prompt for chunk chunk_num of total_chunks
ChunkPrompt(body, chunk_num, total_chunks) ==
    [kind |-> "chunk", body |-> body, num |-> chunk_num,
     total |-> total_chunks]

\* line 380: "rate limit" in str(e).lower() or "429" in str(e)
IsRateLimitError(e) ==
    \E k \in 1 .. Len(e) : e[k] \in {"rate limit", "429"}

\* lines 378-383: what the except branch returns for the exception e
ChunkErrorText(e, chunk_num) ==
    IF IsRateLimitError(e)
    THEN <<"Rate limit reached while processing chunk ", ToString(chunk_num),
           ". Please wait a moment and try again.">>
    ELSE <<"Error processing chunk", " ", ToString(chunk_num), ": ">> \o e

\* lines 376-383 once the executor has ended: what the method returns
ChunkSummaryText(chunk_num) ==
    IF pc = "returned" THEN response ELSE ChunkErrorText(response, chunk_num)

\* lines 162 and 193: summary.startswith("Error processing chunk")
IsErrorText(summary) == StartsWith(summary, <<"Error processing chunk">>)

(***************************************************************************)
(* HybridAI._combine_summaries (lines 385-449)                             *)
(***************************************************************************)
\* lines 387-443: the prompt holds the summaries joined by blank lines
CombinePrompt(sums) ==
    [kind |-> "combine", body |-> Join(sums, BlankLine), num |-> 0,
     total |-> Len(sums)]

\* the summaries concatenated under no heading
ConcatenatedSummariesBare(sums) == Join(sums, BlankLine)

\* the summaries concatenated under the heading from the last to the first
ConcatenatedSummariesReversed(sums) ==
    <<"##", " Combined Summary", "\n", "\n">> \o
        Join([k \in 1 .. Len(sums) |-> sums[Len(sums) + 1 - k]], BlankLine)

\* line 449: the summaries concatenated under a generic heading
ConcatenatedSummaries(sums) ==
    <<"##", " Combined Summary", "\n", "\n">> \o Join(sums, BlankLine)

(***************************************************************************)
(* HybridAI.get_summary (lines 126-199)                                    *)
(***************************************************************************)
\* the texts get_summary is called with
SummaryTexts ==
    { <<"a", "b">>,
      <<"a", "b", "\n", "c", "d", "\n", "e", "f">>,
      <<"a", "b", "\n", "c", "d", "\n", "e", "f", "\n", "g", "h">>,
      <<"1", ".", " ", "A", "b", " ", " ">>,
      <<" ", " ", " ", " ", " ", " ", " ">> }

\* progress_callback(fraction, status): the fraction as <<numerator,
\* denominator>>
Report(cb, log, fraction, status) ==
    IF cb THEN Append(log, [fraction |-> fraction, status |-> status])
    ELSE log

\* the fraction of chunk chunk_num of n without the factor 0.8
ChunkProgressUnscaled(chunk_num, n) == <<10 * chunk_num, 10 * n>>

\* lines 152-153: (i + 1) / len(chunks) * 0.8
ChunkProgress(chunk_num, n) == <<8 * chunk_num, 10 * n>>

\* lines 133-143: the chunks the loop runs over
SummaryChunks(t) ==
    LET split == split_text_into_chunks(t, MaxSummaryChars)
    IN  IF Len(split) > MaxSummaryChunks
        THEN combine_chunks_to_limit(split, MaxSummaryChunks)
        ELSE split

\* the fallback taken only when every chunk failed
TooManyFailuresAll(fails, cs) == fails >= Len(cs) /\ Len(cs) > 0

\* line 170: api_failures > len(chunks) * 0.5
TooManyFailures(fails, cs) == fails * 2 > Len(cs)

\* lines 169-179: after the loop over the chunks cs of the text t, with
\* summaries sums and fails failures: the fallback over the whole text, or
\* the call that combines
AfterChunks(t, cs, cb, sums, fails, log) ==
    /\ progress_log' =
           Report(cb, log, <<9, 10>>,
                  IF TooManyFailures(fails, cs)
                  THEN "Using fallback summary generation..."
                  ELSE "Combining summaries...")
    /\ IF TooManyFailures(fails, cs)
       THEN /\ result' = [raised |-> FALSE,
                          value |-> create_fallback_summary(t, 1, 1)]
            /\ pc' = "idle"
            /\ combine_calls' = 0
            /\ UNCHANGED <<caller, prompt, models_to_try, attempt, model_idx,
                           key_name, response, call_hist_vars>>
       ELSE /\ BeginCall("combine", "None", CombinePrompt(sums))
            /\ combine_calls' = 1
            /\ UNCHANGED result

\* get_summary(text, progress_callback) up to its first request
CallGetSummary ==
    /\ pc = "idle"
    /\ ai_available
    /\ calls = 0
    /\ calls' = calls + 1
    /\ last_step' = "call"
    /\ \E t \in SummaryTexts, cb \in BOOLEAN :
        /\ text' = t
        /\ progress_callback' = cb
        /\ summaries' = <<>>
        /\ api_failures' = 0
        /\ chunk_i' = 0
        /\ chunk_raised' = <<>>
        /\ IF Len(t) > MaxSummaryChars
           THEN /\ chunks' = SummaryChunks(t)
                /\ IF chunks' # <<>>
                   THEN /\ progress_log' =
                               Report(cb, <<>>,
                                      ChunkProgress(1, Len(chunks')),
                                      "Processing chunk")
                        /\ BeginCall("chunk", "None",
                               ChunkPrompt(chunks'[1], 1, Len(chunks')))
                        /\ combine_calls' = 0
                        /\ UNCHANGED result
                   ELSE AfterChunks(t, <<>>, cb, <<>>, 0, <<>>)
           ELSE /\ chunks' = <<>>
                /\ progress_log' = Report(cb, <<>>, <<5, 10>>, "Processing text...")
                /\ BeginCall("single", "None", ChunkPrompt(t, 1, 1))
                /\ combine_calls' = 0
                /\ UNCHANGED result
    /\ UNCHANGED <<config_vars, pool_vars, mcq_vars, split_vars,
                   thread_vars, since_last_post, last_gap>>

\* lines 159-167 for the chunk whose request has ended, then the next pass
\* of the loop up to its request (lines 150-159), or what follows the loop
ChunkDone ==
    /\ CallEnded
    /\ caller = "chunk"
    /\ LET n == Len(chunks)
           chunk_num == chunk_i + 1
           chunk_summary == ChunkSummaryText(chunk_num)
           failed == IsErrorText(chunk_summary)
           entry == IF failed
                    THEN create_fallback_summary(chunks[chunk_num], chunk_num, n)
                    ELSE chunk_summary
           sums == Append(summaries, entry)
           fails == IF failed THEN api_failures + 1 ELSE api_failures
       IN  /\ summaries' = sums
           /\ api_failures' = fails
           /\ chunk_raised' = Append(chunk_raised, pc = "raised")
           /\ IF chunk_num < n
              THEN /\ chunk_i' = chunk_i + 1
                   /\ progress_log' =
                          Report(progress_callback, progress_log,
                                 ChunkProgress(chunk_num + 1, n),
                                 "Processing chunk")
                   \* line 157: time.sleep(Config.MIN_REQUEST_INTERVAL)
                   /\ Elapse(MIN_REQUEST_INTERVAL)
                   /\ BeginCall("chunk", "None",
                          ChunkPrompt(chunks[chunk_num + 1], chunk_num + 1, n))
                   /\ UNCHANGED <<result, combine_calls>>
              ELSE /\ AfterChunks(text, chunks, progress_callback, sums,
                                  fails, progress_log)
                   /\ UNCHANGED <<chunk_i, since_last_used,
                                  since_last_request, since_last_post>>
    /\ last_step' = "chunk_done"
    /\ UNCHANGED <<config_vars, key_usage, text, chunks, progress_callback,
                   mcq_vars, split_vars, thread_vars, calls, last_gap>>

\* lines 179-184, with lines 445-449 of _combine_summaries
CombineDone ==
    /\ CallEnded
    /\ caller = "combine"
    /\ result' = [raised |-> FALSE,
                  value |-> IF pc = "returned" THEN response
                            ELSE ConcatenatedSummaries(summaries)]
    /\ progress_log' = Report(progress_callback, progress_log, <<10, 10>>,
                              "Summary complete!")
    /\ pc' = "idle"
    /\ last_step' = "combine_done"
    /\ UNCHANGED <<config_vars, pool_vars, caller, prompt, models_to_try,
                   attempt, model_idx, key_name, response, text, chunks,
                   chunk_i, summaries, api_failures, progress_callback,
                   chunk_raised, combine_calls, mcq_vars, split_vars,
                   thread_vars, calls, call_hist_vars, since_last_post,
                   last_gap>>

\* lines 190-199
SingleDone ==
    /\ CallEnded
    /\ caller = "single"
    /\ result' = [raised |-> FALSE,
                  value |-> IF IsErrorText(ChunkSummaryText(1))
                            THEN create_fallback_summary(text, 1, 1)
                            ELSE ChunkSummaryText(1)]
    /\ progress_log' = Report(progress_callback, progress_log, <<10, 10>>,
                              "Summary complete!")
    /\ pc' = "idle"
    /\ last_step' = "single_done"
    /\ UNCHANGED <<config_vars, pool_vars, caller, prompt, models_to_try,
                   attempt, model_idx, key_name, response, text, chunks,
                   chunk_i, summaries, api_failures, progress_callback,
                   chunk_raised, combine_calls, mcq_vars, split_vars,
                   thread_vars, calls, call_hist_vars, since_last_post,
                   last_gap>>

\* get_summary called once on a newly constructed orchestrator
NextSummary ==
    \/ CallGetSummary
    \/ Select
    \/ PostAny
    \/ ChunkDone
    \/ CombineDone
    \/ SingleDone

SpecSummary == Init /\ [][NextSummary]_vars

(***************************************************************************)
(* HybridAI._create_fallback_mcqs (lines 540-567)                          *)
(***************************************************************************)
\* the regex class \w
IsWordChar(c) == IsLetter(c) \/ c \in Digits \/ c = "_"

\* the last position of the run of letters that begins at position i
LetterRunEnd(s, i) ==
    CHOOSE j \in i .. Len(s) :
        /\ \A k \in i .. j : IsLetter(s[k])
        /\ j = Len(s) \/ ~IsLetter(s[j + 1])

\* line 547: set(re.findall(r'\b[A-Z][a-zA-Z]+\b', text))
key_terms(s) ==
    LET starts ==
            {i \in 1 .. Len(s) :
                /\ IsUpper(s[i])
                /\ i = 1 \/ ~IsWordChar(s[i - 1])
                /\ LetterRunEnd(s, i) > i
                /\ \/ LetterRunEnd(s, i) = Len(s)
                   \/ ~IsWordChar(s[LetterRunEnd(s, i) + 1])}
    IN  {SubSeq(s, i, LetterRunEnd(s, i)) : i \in starts}

\* line 546: len(s.strip()) > 20
IsSentence(s) == Len(s) > 20

\* line 546
Sentences(s) ==
    LET parts == Split(s, ".")
    IN  SelectSeq([k \in 1 .. Len(parts) |-> Strip(parts[k])], IsSentence)

\* s.replace(old, new) for a non-empty old
RECURSIVE Replace(_, _, _)
Replace(s, old, new) ==
    LET hits == {a \in 1 .. Len(s) - Len(old) + 1 :
                    SubSeq(s, a, a + Len(old) - 1) = old}
    IN  IF hits = {} THEN s
        ELSE LET h == CHOOSE a \in hits : \A b \in hits : a <= b
             IN  SubSeq(s, 1, h - 1) \o new
                     \o Replace(SubSeq(s, h + Len(old), Len(s)), old, new)

\* line 554: '_____'
Blank == <<"_", "_", "_", "_", "_">>

\* lines 557-559: min(3, len(key_terms) - 1) of the other terms and the
\* answer, in any order
OptionLists(terms, answer) ==
    LET m == Min(3, Cardinality(terms) - 1) + 1
    IN  {o \in [1 .. m -> terms] :
            /\ \A i, j \in 1 .. m : o[i] = o[j] => i = j
            /\ \E i \in 1 .. m : o[i] = answer}

\* lines 552-565: the questions random.choice, random.sample and
\* random.shuffle can make of one sentence
FallbackQuestions(sentence, terms) ==
    UNION {
        { JObj([question |->
                    JStr(<<"Fill in the blank: ">>
                            \o Replace(sentence, answer, Blank)),
                options |-> JArr([i \in 1 .. Len(o) |-> JStr(o[i])]),
                answer |-> JStr(answer)]) :
          o \in OptionLists(terms, answer) } :
        answer \in terms }

\* lines 550-565: the lists the loop can build in count passes
RECURSIVE FallbackLists(_, _, _)
FallbackLists(sentences, terms, count) ==
    IF count = 0 THEN {<<>>}
    ELSE {Append(qs, q) :
             qs \in FallbackLists(sentences, terms, count - 1),
             q \in FallbackQuestions(sentences[count], terms)}

\* the lists _create_fallback_mcqs(text, num_questions) can return
create_fallback_mcqs(s, num) ==
    LET sentences == Sentences(s)
        terms == key_terms(s)
    IN  IF terms = {} THEN {<<>>}
        ELSE FallbackLists(sentences, terms,
                           Max(0, Min(num, Len(sentences))))

(***************************************************************************)
(* HybridAI._sample_text_for_mcqs (lines 569-666)                          *)
(***************************************************************************)
\* s.split(sep) for a non-empty string sep
RECURSIVE SplitOn(_, _)
SplitOn(s, sep) ==
    LET hits == {a \in 1 .. Len(s) - Len(sep) + 1 :
                    SubSeq(s, a, a + Len(sep) - 1) = sep}
    IN  IF hits = {} THEN <<s>>
        ELSE LET h == CHOOSE a \in hits : \A b \in hits : a <= b
             IN  <<SubSeq(s, 1, h - 1)>>
                     \o SplitOn(SubSeq(s, h + Len(sep), Len(s)), sep)

\* line 578
Paragraphs(s) == SelectSeq(StripAll(SplitOn(s, BlankLine)), NonEmpty)

\* lines 582-583
preface_keywords ==
    { <<"p", "r", "e", "f", "a", "c", "e">>,
      <<"a", "c", "k", "n", "o", "w", "l", "e", "d", "g", "m", "e", "n",
        "t">>,
      <<"a", "c", "k", "n", "o", "w", "l", "e", "d", "g", "e", "m", "e",
        "n", "t">>,
      <<"f", "o", "r", "e", "w", "o", "r", "d">>,
      <<"i", "n", "t", "r", "o", "d", "u", "c", "t", "i", "o", "n">>,
      <<"c", "o", "p", "y", "r", "i", "g", "h", "t">>,
      <<"p", "u", "b", "l", "i", "s", "h", "e", "r">>,
      <<"a", "u", "t", "h", "o", "r">>,
      <<"e", "d", "i", "t", "o", "r">>,
      <<"d", "e", "d", "i", "c", "a", "t", "i", "o", "n">>,
      <<"t", "a", "b", "l", "e", " ", "o", "f", " ", "c", "o", "n", "t",
        "e", "n", "t", "s">> }

\* lines 587-594: the paragraph is kept
IsContentParagraph(p) ==
    /\ \A keyword \in preface_keywords : ~Contains(Lower(p), keyword)
    /\ Len(p) >= 50
    /\ ~(10 * Cardinality({i \in 1 .. Len(p) : IsLetter(p[i])}) < 3 * Len(p))

\* the orders random.shuffle can leave a list in
Shuffles(list) ==
    LET n == Len(list)
    IN  {[i \in 1 .. n |-> list[p[i]]] :
            p \in {q \in [1 .. n -> 1 .. n] :
                      \A i, j \in 1 .. n : q[i] = q[j] => i = j}}

\* lines 650-652
RECURSIVE AddWhileRoom(_, _, _)
AddWhileRoom(sampled, more, max_chars) ==
    IF more = <<>> THEN sampled
    ELSE AddWhileRoom(
             IF Len(Join(sampled, <<" ">>)) + Len(more[1]) < max_chars
             THEN Append(sampled, more[1]) ELSE sampled,
             Tail(more), max_chars)

\* lines 618-630: the paragraph ranges of the four sections, as <<start,
\* end>> of a slice
section_choices(content_paragraphs) ==
    LET section_size == Len(content_paragraphs) \div 4
    IN  << <<section_size, 2 * section_size>>,
           <<2 * section_size, 3 * section_size>>,
           <<3 * section_size, Len(content_paragraphs)>>,
           <<0, section_size>> >>

\* lines 632-638: every step-th paragraph of the section, five at most
PickFromSection(section_paragraphs) ==
    LET step == Max(1, Len(section_paragraphs) \div 6)
        picks == (Len(section_paragraphs) + step - 1) \div step
    IN  [k \in 1 .. Min(5, picks) |-> section_paragraphs[(k - 1) * step + 1]]

\* lines 655-666: the sampled paragraphs made into the text returned
FinishSample(sampled, content_paragraphs, max_chars) ==
    LET joined == Join(sampled, BlankLine)
        padded ==
            IF Len(joined) < max_chars \div 2 /\ Len(content_paragraphs) > 0
            THEN Join(Slice(content_paragraphs, 0, 2), BlankLine)
                     \o BlankLine \o joined
            ELSE joined
    IN  IF Len(padded) > max_chars
        THEN SubSeq(padded, 1, max_chars) \o <<".", ".", ".">>
        ELSE padded

\* lines 581-595
FilteredParagraphs(s) == SelectSeq(Paragraphs(s), IsContentParagraph)

\* lines 604-605
ContentParagraphs(s) ==
    LET filtered_paragraphs == FilteredParagraphs(s)
        skip_count == Max(3, Len(filtered_paragraphs) \div 3)
    IN  Slice(filtered_paragraphs, skip_count, Len(filtered_paragraphs))

\* lines 629-630: the range of the section sampled first
primary_section(content_paragraphs, regenerate) ==
    section_choices(content_paragraphs)[(regenerate % 4) + 1]

\* lines 643-644: the range of the section sampled for more content
alt_section(content_paragraphs, regenerate) ==
    section_choices(content_paragraphs)[((regenerate + 1) % 4) + 1]

\* the texts _sample_text_for_mcqs(text, max_chars, regenerate_count) can
\* return; the seeded shuffle of line 649 is left open
sample_text_for_mcqs(s, max_chars, regenerate) ==
    LET filtered_paragraphs == FilteredParagraphs(s)
        content_paragraphs == ContentParagraphs(s)
        primary == primary_section(content_paragraphs, regenerate)
        alt == alt_section(content_paragraphs, regenerate)
        sampled ==
            PickFromSection(Slice(content_paragraphs, primary[1], primary[2]))
        alt_section_paragraphs == Slice(content_paragraphs, alt[1], alt[2])
    IN  IF Len(filtered_paragraphs) <= 3
        THEN {Slice(s, Len(s) \div 3, Len(s) \div 3 + max_chars)}
        ELSE IF content_paragraphs = <<>>
        THEN {Slice(s, Len(s) \div 2, Len(s) \div 2 + max_chars)}
        ELSE IF Len(Join(sampled, <<" ">>)) < max_chars \div 2
        THEN {FinishSample(
                  AddWhileRoom(sampled, Slice(shuffled, 0, 3), max_chars),
                  content_paragraphs, max_chars) :
              shuffled \in Shuffles(alt_section_paragraphs)}
        ELSE {FinishSample(sampled, content_paragraphs, max_chars)}

(***************************************************************************)
(* HybridAI.generate_mcqs (lines 451-538)                                  *)
(***************************************************************************)
\* lines 465-506: the prompt asks for num questions on the text body; the
\* seed of line 463 is more text of the prompt
McqPrompt(body, num) ==
    [kind |-> "mcq", body |-> body, num |-> num, total |-> 0]

\* line 523
HasKeys(q) ==
    q.t = "obj" /\ {"question", "options", "answer"} \subseteq DOMAIN q.v

\* line 524 raises TypeError
ValidationRaises(q) ==
    /\ HasKeys(q)
    /\ \/ ~Sized(q.v.options)
       \/ PyLen(q.v.options) = 4 /\ InRaises(q.v.answer, q.v.options)

\* lines 523-524: the question is kept
IsValidQuestion(q) ==
    /\ HasKeys(q)
    /\ Sized(q.v.options)
    /\ PyLen(q.v.options) = 4
    /\ ~InRaises(q.v.answer, q.v.options)
    /\ PyIn(q.v.answer, q.v.options)

\* the whole list, whatever num is
FirstNAll(qs, num) == qs

\* line 527: valid_questions[:num_questions] for num_questions >= 0
FirstN(qs, num) == SubSeq(qs, 1, Min(num, Len(qs)))

\* ParseQuestions taking a response that does not decode for an empty list
ParseQuestionsLenient(resp) ==
    LET start_idx == Find(resp, "[")
        end_idx == RFind(resp, "]") + 1
        decoded == json_loads(Slice(resp, start_idx, end_idx))
        questions == decoded.value.v
    IN  IF start_idx = -1 \/ ~decoded.ok
        THEN [accepted |-> TRUE, valid |-> <<>>]
        ELSE IF \E k \in 1 .. Len(questions) : ValidationRaises(questions[k])
        THEN [accepted |-> FALSE, valid |-> <<>>]
        ELSE [accepted |-> TRUE,
              valid |-> SelectSeq(questions, IsValidQuestion)]

\* lines 514-529: what the try block makes of the response: accepted is
\* FALSE when it raises (no '[', JSONDecodeError, TypeError)
ParseQuestions(resp) ==
    LET start_idx == Find(resp, "[")
        end_idx == RFind(resp, "]") + 1
        decoded == json_loads(Slice(resp, start_idx, end_idx))
        questions == decoded.value.v
    IN  IF start_idx = -1 \/ ~decoded.ok
            \/ \E k \in 1 .. Len(questions) : ValidationRaises(questions[k])
        THEN [accepted |-> FALSE, valid |-> <<>>]
        ELSE [accepted |-> TRUE,
              valid |-> SelectSeq(questions, IsValidQuestion)]

\* a paragraph of fifty letters
LongParagraph(c) == [i \in 1 .. 50 |-> c]

\* the texts generate_mcqs is called with: sentences with one, four and two
\* capitalised terms, a text without a sentence, a text over the limit with
\* no long paragraph, and one with four
McqTexts ==
    { <<"A", "b", " ", "c", "d", " ", "e", "f", " ", "g", "h", " ", "i",
        "j", " ", "k", "l", " ", "m", "n", " ", "o", "p", ".">>,
      <<"A", "b", " ", "C", "d", " ", "E", "f", " ", "G", "h", " ", "i",
        "j", " ", "k", "l", " ", "m", "n", " ", "o", "p", " ", "q", "r",
        ".">>,
      <<"A", "b", " ", "c", "d", " ", "e", "f", " ", "g", "h", " ", "i",
        "j", " ", "k", "l", " ", "m", "n", " ", "o", "p", ".", " ", "C", "d",
        " ", "e", "f", " ", "g", "h", " ", "i", "j", " ", "k", "l", " ", "m",
        "n", " ", "o", "p", " ", "q", "r", ".">>,
      <<"A", "b", ".">>,
      <<"A", "b", " ", "c", "d", " ", "e", "f", " ", "g", "h", " ", "i",
        "j", " ", "k", "l", " ", "m", "n", ".", " ", "A", "b", " ", "c", "d",
        " ", "e", "f", " ", "g", "h", " ", "i", "j", " ", "k", "l", " ", "m",
        "n", ".", " ", "A", "b", " ", "c", "d", " ", "e", "f", " ", "g", "h",
        " ", "i", "j", " ", "k", "l", " ", "m", "n", ".", " ">>,
      Join(<<LongParagraph("a"), LongParagraph("b"), LongParagraph("c"),
             <<"A", "b", " ">> \o LongParagraph("d")>>, BlankLine) }

\* generate_mcqs(text, num_questions, regenerate_count) up to its request
CallGenerateMcqs ==
    /\ pc = "idle"
    /\ ai_available
    /\ calls = 0
    /\ calls' = calls + 1
    /\ last_step' = "call"
    /\ \E s \in McqTexts, num \in 0 .. MaxQuestions,
          regenerate \in 0 .. MaxRegenerate :
        /\ text' = s
        /\ num_questions' = num
        /\ regenerate_count' = regenerate
        /\ mcq_text' \in IF Len(s) > MaxMcqChars
                        THEN sample_text_for_mcqs(s, MaxMcqChars, regenerate)
                        ELSE {s}
        /\ BeginCall("mcq", "None", McqPrompt(mcq_text', num))
    /\ UNCHANGED <<config_vars, pool_vars, chunks, chunk_i, summaries,
                   api_failures, progress_callback, progress_log,
                   chunk_raised, combine_calls, split_vars, thread_vars,
                   result, since_last_post, last_gap>>

\* lines 508-538 once the executor has ended
McqDone ==
    /\ CallEnded
    /\ caller = "mcq"
    /\ IF pc = "returned" /\ ParseQuestions(response).accepted
       THEN /\ result' = [raised |-> FALSE,
                          value |-> FirstN(ParseQuestions(response).valid,
                                           num_questions)]
            /\ last_step' = "mcq_remote"
       ELSE /\ \E qs \in create_fallback_mcqs(mcq_text, num_questions) :
                   result' = [raised |-> FALSE, value |-> qs]
            /\ last_step' = "mcq_fallback"
    /\ pc' = "idle"
    /\ UNCHANGED <<config_vars, pool_vars, caller, prompt, models_to_try,
                   attempt, model_idx, key_name, response, pipeline_vars,
                   calls, call_hist_vars, since_last_post, last_gap>>

\* generate_mcqs called once on a newly constructed orchestrator
NextMcq ==
    \/ CallGenerateMcqs
    \/ Select
    \/ PostAny
    \/ McqDone

SpecMcq == Init /\ [][NextMcq]_vars

(***************************************************************************)
(* _split_text_into_chunks and _combine_chunks_to_limit on their own: one  *)
(* text is split, and the list of chunks is then limited any number of     *)
(* times                                                                   *)
(***************************************************************************)
MaxTextLen == 5

MaxSplitChars == 4

MaxLimit == 3

\* the texts split: every text of at most MaxTextLen characters over a
\* letter, a digit, the dot of a numbered heading, a blank and a newline,
\* and longer ones: many short lines, and chapter and section headings
SplitTexts ==
    LET Alphabet == {"a", "1", ".", " ", "\n"}
    IN  UNION {[1 .. k -> Alphabet] : k \in 0 .. MaxTextLen} \cup
        { <<"a", "\n", "a", "\n", "a", "\n", "a">>,
          <<"a", "\n", "a", "\n", "a", "\n", "a", "\n", "a", "\n", "a">>,
          <<"a", " ", "1", "\n", "a", " ", "1", "\n", "a", " ", "1", "\n",
            "a", " ", "1">>,
          <<"1", ".", " ", "a", "\n", "\n", "\n", "\n">>,
          <<"1", ".", " ", "a", "b", " ", "2", ".", " ", "c", "d">>,
          <<"1", ".", " ", "a", "b", "c", "d", "e", "f", " ", "2", ".", " ",
            "c">>,
          <<"c", "h", "a", "p", "t", "e", "r", " ", "1", " ", "a", " ",
            "s", "e", "c", "t", "i", "o", "n", " ", "2", " ", "b">>,
          <<"C", "h", "a", "p", "t", "e", "r", " ", "1", ":", "a", "\n",
            "S", "e", "c", "t", "i", "o", "n", " ", "2", " ", "b">> }

\* _split_text_into_chunks(text, max_chars) called once on a newly
\* constructed orchestrator
CallSplit ==
    /\ pc = "idle"
    /\ ai_available
    /\ calls = 0
    /\ \E t \in SplitTexts, m \in 1 .. MaxSplitChars :
          /\ text' = t
          /\ arg_max_chars' = m
          /\ chunks' = split_text_into_chunks(t, m)
    /\ calls' = 1
    /\ last_step' = "split"
    /\ UNCHANGED <<config_vars, pool_vars, exec_vars, chunk_i, summaries,
                   api_failures, progress_callback, progress_log,
                   chunk_raised, combine_calls, mcq_vars, arg_max_chunks,
                   limit_input, thread_vars, result, call_hist_vars,
                   since_last_post, last_gap>>

\* _combine_chunks_to_limit(chunks, max_chunks) called on the list that the
\* split, or the previous call of it, returned
CallLimit ==
    /\ pc = "idle"
    /\ last_step \in {"split", "limit"}
    /\ \E n \in 1 .. MaxLimit :
          /\ arg_max_chunks' = n
          /\ limit_input' = chunks
          /\ chunks' = combine_chunks_to_limit(chunks, n)
    /\ last_step' = "limit"
    /\ UNCHANGED <<config_vars, pool_vars, exec_vars, text, chunk_i,
                   summaries, api_failures, progress_callback, progress_log,
                   chunk_raised, combine_calls, mcq_vars, arg_max_chars,
                   thread_vars, calls, result, call_hist_vars,
                   since_last_post, last_gap>>

\* both keys are configured: the two functions read neither
InitSplit == Init /\ api_key_1 /\ api_key_2

NextSplit ==
    \/ CallSplit
    \/ CallLimit

SpecSplit == InitSplit /\ [][NextSplit]_vars

(***************************************************************************)
(* _make_request_with_fallback called by two threads on one orchestrator:  *)
(* the code takes no lock, so the calls interleave wherever one of them    *)
(* sleeps or waits for its request; each thread has its own locals, and    *)
(* self.key_usage and self.last_request_time are shared                    *)
(***************************************************************************)
\* calls each thread makes in one behaviour
MaxThreadCalls == 1

\* lines 67-72: thread t calls _make_request_with_fallback(prompt, model)
ThreadCall(t) ==
    /\ ai_available
    /\ threads[t].pc = "idle"
    /\ threads[t].calls < MaxThreadCalls
    /\ \E model \in {"None", "sonar"} :
          threads' = [threads EXCEPT ![t] =
              [pc |-> "gate", calls |-> @.calls + 1, remaining |-> 0,
               models_to_try |-> IF model = "None" THEN FALLBACK_MODELS
                                 ELSE <<model>>,
               attempt |-> 0, model_idx |-> 0, key_name |-> "none",
               ended |-> "none"]]
    /\ last_step' = "thread_call"
    /\ UNCHANGED <<config_vars, pool_vars, exec_vars, summary_vars, mcq_vars,
                   split_vars, since_last_grant, grant_gap, calls, result,
                   call_hist_vars, since_last_post, last_gap>>

\* lines 33-37 up to the sleep: thread t reads the clock and
\* self.last_request_time and finds how long it has to sleep; the sleep of
\* line 121 before a second attempt is over
ThreadGate(t) ==
    /\ \/ threads[t].pc = "gate"
       \/ threads[t].pc = "nap" /\ threads[t].remaining = 0
    /\ threads' = [threads EXCEPT ![t] =
           [@ EXCEPT !.pc = "sleep",
                     !.remaining = GateWait(since_last_request)]]
    /\ last_step' = "thread_gate"
    /\ UNCHANGED <<config_vars, pool_vars, exec_vars, summary_vars, mcq_vars,
                   split_vars, since_last_grant, grant_gap, calls, result,
                   call_hist_vars, since_last_post, last_gap>>

\* lines 39-54, 76-78: the sleep of thread t is over and
\* _get_available_api_key returns a key, or raises
ThreadSelect(t) ==
    /\ threads[t].pc = "sleep"
    /\ threads[t].remaining = 0
    /\ LET k == SelectKey(api_key_1, api_key_2, key_usage)
       IN  IF k = "raise"
           THEN /\ threads' = [threads EXCEPT ![t] =
                       [@ EXCEPT !.pc = "idle", !.ended = "raised"]]
                /\ UNCHANGED <<since_last_grant, grant_gap>>
           ELSE /\ threads' = [threads EXCEPT ![t] =
                       [@ EXCEPT !.pc = "request", !.key_name = k,
                                 !.model_idx = 1]]
                /\ grant_gap' = since_last_grant
                /\ since_last_grant' = 0
    /\ last_step' = "thread_select"
    /\ UNCHANGED <<config_vars, pool_vars, exec_vars, summary_vars, mcq_vars,
                   split_vars, calls, result, call_hist_vars, since_last_post,
                   last_gap>>

\* lines 99-124: the requests.post of thread t ends with the outcome; what
\* _update_usage writes, and where the thread goes on
ThreadPost(t, outcome) ==
    /\ threads[t].pc = "request"
    /\ LET me == threads[t]
           recorded == outcome = "ok" \/ RecordsFailure(outcome)
           last_model == me.model_idx = Len(me.models_to_try)
           retry == outcome # "ok" /\ last_model
                       /\ me.attempt < max_retries - 1
       IN  /\ key_usage' =
                  IF recorded
                  THEN UpdateUsage(key_usage, me.key_name, outcome = "ok")
                  ELSE key_usage
           /\ since_last_request' =
                  IF recorded THEN 0 ELSE since_last_request
           /\ since_last_used' =
                  [n \in KeyNames |->
                      IF recorded /\ n = me.key_name THEN 0
                      ELSE since_last_used[n]]
           /\ threads' = [threads EXCEPT ![t] =
                  IF outcome = "ok"
                  THEN [@ EXCEPT !.pc = "idle", !.ended = "returned"]
                  ELSE IF ~last_model
                  THEN [@ EXCEPT !.model_idx = @ + 1]
                  ELSE IF retry
                  THEN [@ EXCEPT !.pc = "nap", !.remaining = 1,
                                 !.attempt = @ + 1]
                  ELSE [@ EXCEPT !.pc = "idle", !.ended = "raised"]]
    /\ last_step' = "thread_post"
    /\ UNCHANGED <<config_vars, exec_vars, summary_vars, mcq_vars,
                   split_vars, since_last_grant, grant_gap, calls, result,
                   call_hist_vars, since_last_post, last_gap>>

\* a second passes for every thread
ThreadTick ==
    /\ ai_available
    /\ \E t \in Threads :
          threads[t].pc # "idle" \/ threads[t].calls < MaxThreadCalls
    /\ Elapse(1)
    /\ since_last_grant' = Later(since_last_grant, 1)
    /\ threads' = [t \in Threads |->
                      [threads[t] EXCEPT !.remaining = Max(0, @ - 1)]]
    /\ last_step' = "thread_tick"
    /\ UNCHANGED <<config_vars, key_usage, exec_vars, summary_vars, mcq_vars,
                   split_vars, grant_gap, calls, result, call_hist_vars,
                   last_gap>>

ThreadCalls == \E t \in Threads : ThreadCall(t)

ThreadGates == \E t \in Threads : ThreadGate(t)

ThreadSelects == \E t \in Threads : ThreadSelect(t)

ThreadPosts == \E t \in Threads, o \in Outcomes : ThreadPost(t, o)

NextThreads ==
    \/ ThreadCalls
    \/ ThreadGates
    \/ ThreadSelects
    \/ ThreadPosts
    \/ ThreadTick

SpecThreads == Init /\ [][NextThreads]_vars

(***************************************************************************)
(* Properties of the executor and the credential pool                     *)
(***************************************************************************)
\* requests that were recorded as successes on a key
Successes(u) == u.requests - u.errors

\* C1: when every remote request of a call fails, execute raises
\* AllAttemptsExhausted after exactly 2 outer attempts, each trying every
\* candidate model once in list order: after exactly 2 x |models| requests,
\* never earlier (a call that raised made them all), never later (a call
\* still running has made fewer), and it never returns instead.
C1_AllFailExhausts ==
    LET n == Len(models_to_try)
    IN  /\ pc = "raised" =>
              /\ response = AllFailedError
              /\ Len(post_log) = 2 * n
              /\ \A i \in 1 .. Len(post_log) :
                     post_log[i][2] = models_to_try[((i - 1) % n) + 1]
        /\ pc \in {"select", "request"} => Len(post_log) < 2 * n
        /\ pc = "returned" => \E k \in KeyNames : seen[k].ok

\* a call over the whole fallback list raised after six failed requests,
\* a status other than 200 among them
C1_Witness ==
    /\ pc = "raised"
    /\ models_to_try = FALLBACK_MODELS
    /\ Len(post_log) = 6
    /\ seen_200 = FALSE
    /\ key_usage # usage_at_call

\* C2 as stated: as soon as a model answers HTTP 200 the call has returned
\* that answer, having recorded one success on the selected credential,
\* and issues no further request.
C2_First200Wins ==
    seen_200 =>
        /\ pc \in {"returned", "idle"}
        /\ last_outcome \in {"ok", "bad_body"}
        /\ Successes(key_usage[key_name]) =
               Successes(usage_at_call[key_name]) + 1

\* C2 amended: the first HTTP 200 response whose body carries
\* choices[0].message.content wins: the call has returned that text, one
\* success is recorded on the selected credential and none on the other,
\* and no request follows it in the call.
C2_FirstGood200Wins ==
    (\E k \in KeyNames : seen[k].ok) =>
        /\ pc \in {"returned", "idle"}
        /\ pc = "idle" => ~result.raised /\ result.value = last_content
        /\ pc = "returned" => response = last_content
        /\ last_outcome = "ok"
        /\ seen[key_name].ok
        /\ \A k \in KeyNames :
               Successes(key_usage[k]) =
                   Successes(usage_at_call[k]) + (IF k = key_name THEN 1 ELSE 0)

\* the second model of the first attempt answered 200 with content: the
\* call returned with the third model and the second attempt untried
C2_Witness ==
    /\ pc = "returned"
    /\ models_to_try = FALLBACK_MODELS
    /\ Len(post_log) = 2
    /\ attempt = 0
    /\ response = <<"b">>

\* C3: every failed model attempt, a non-200 response or a transport
\* failure, adds one to requests and one to errors of the selected
\* credential before the next model is tried.
C3_FailureRecorded ==
    [][(pc = "request" /\ Len(post_log') = Len(post_log) + 1
            /\ last_outcome' # "ok")
        => key_usage' = [key_usage EXCEPT
               ![key_name] = [requests |-> @.requests + 1,
                              errors |-> @.errors + 1]]]_vars

\* C4: with both credentials configured the selected credential is the one
\* with the lowest requests + 10 x errors, the first on a tie; with one
\* configured it is that one whatever the counters.
C4_LowestScoreSelected ==
    (last_step = "select" /\ pc = "request") =>
        LET s1 == key_usage["key_1"].requests + 10 * key_usage["key_1"].errors
            s2 == key_usage["key_2"].requests + 10 * key_usage["key_2"].errors
        IN  /\ (api_key_1 /\ api_key_2 /\ s1 <= s2) => key_name = "key_1"
            /\ (api_key_1 /\ api_key_2 /\ s2 < s1) => key_name = "key_2"
            /\ (api_key_1 /\ ~api_key_2) => key_name = "key_1"
            /\ (api_key_2 /\ ~api_key_1) => key_name = "key_2"

\* key_1 has requests and no errors, key_2 has none of either: key_2 is
\* selected
C4_Witness ==
    /\ last_step = "select"
    /\ pc = "request"
    /\ api_key_1 /\ api_key_2
    /\ key_usage["key_1"].requests > 0
    /\ key_usage["key_1"].errors = 0
    /\ key_usage["key_2"] = [requests |-> 0, errors |-> 0]
    /\ key_name = "key_2"

\* C5: with both credentials configured and equal counters, when every
\* request on key_1 fails and every request on key_2 succeeds, the call
\* returns a response.
C5_RoutesAroundFailingKey ==
    (/\ CallEnded
     /\ api_key_1 /\ api_key_2
     /\ usage_at_call["key_1"] = usage_at_call["key_2"]
     /\ ~seen["key_1"].ok
     /\ ~seen["key_2"].failed)
        => pc = "returned"

\* C6: every requests.post is issued at least MIN_REQUEST_INTERVAL seconds
\* after the previous one.
C6_PostsSpaced == last_gap >= 60 \div 20

(***************************************************************************)
(* Properties of get_summary                                               *)
(***************************************************************************)
\* the chunks whose request raised, among those processed so far
RaisedChunks == {i \in 1 .. Len(chunk_raised) : chunk_raised[i]}

\* get_summary has returned
SummaryReturned == pc = "idle" /\ calls > 0

\* no request of the get_summary call that has returned was answered with
\* content: every chunk's call raised, and so did the single or combining
\* call if there was one
NoRequestSucceeded ==
    /\ RaisedChunks = 1 .. Len(chunk_raised)
    /\ caller \in {"single", "combine"} => \A k \in KeyNames : ~seen[k].ok

\* the markdown marker of a second-level heading
HasHeadingMarker(summary) == \E k \in 1 .. Len(summary) : summary[k] = "##"

\* C7: once the requests of more than half of the n chunks of a text have
\* raised, get_summary has returned the local fallback summary of the whole
\* text, and _combine_summaries was not called.
C7_MajorityFailedFallsBack ==
    (Len(chunk_raised) = Len(chunks)
        /\ 2 * Cardinality(RaisedChunks) > Len(chunks)) =>
        /\ SummaryReturned
        /\ result = [raised |-> FALSE,
                     value |-> create_fallback_summary(text, 1, 1)]
        /\ combine_calls = 0
        /\ caller = "chunk"

\* two of three chunks failed, the one between them did not
C7_Witness ==
    /\ SummaryReturned
    /\ Len(chunks) = 3
    /\ chunk_raised = <<TRUE, FALSE, TRUE>>
    /\ result.value = create_fallback_summary(text, 1, 1)
    /\ combine_calls = 0

\* C8: get_summary never raises: every exception of the executor is raised
\* to a call site that handles it, what get_summary returns is a summary
\* and not an exception, and when no request of the call succeeded the
\* summary holds a heading marker.
C8_AlwaysSummary ==
    /\ ~result.raised
    /\ pc = "raised" => caller \in {"chunk", "single", "combine"}
    /\ (SummaryReturned /\ NoRequestSucceeded) =>
           HasHeadingMarker(result.value)

\* a text of whitespace longer than the limit gives no chunk; the combining
\* call failed on every model in both attempts
C8_Witness ==
    /\ SummaryReturned
    /\ NoRequestSucceeded
    /\ caller = "combine"
    /\ chunks = <<>>
    /\ response = AllFailedError
    /\ Len(post_log) = 6
    /\ HasHeadingMarker(result.value)

(***************************************************************************)
(* Properties of generate_mcqs                                             *)
(***************************************************************************)
\* generate_mcqs has returned
McqReturned == pc = "idle" /\ calls > 0

\* C9: every question of a list generate_mcqs returned, from the validated
\* response or from _create_fallback_mcqs, has exactly 4 options and an
\* answer that is one of them.
C9_FourOptionsWithAnswer ==
    McqReturned =>
        \A k \in 1 .. Len(result.value) :
            LET q == result.value[k]
            IN  /\ PyLen(q.v.options) = 4
                /\ PyIn(q.v.answer, q.v.options)

\* C10: the list generate_mcqs returned has at most num_questions
\* elements, whether it was taken from the response or built by
\* _create_fallback_mcqs.
C10_AtMostCount ==
    McqReturned => Len(result.value) <= num_questions

\* three questions of the response were valid and two were asked for
C10_Witness ==
    /\ McqReturned
    /\ last_step = "mcq_remote"
    /\ Len(ParseQuestions(response).valid) = 3
    /\ num_questions = 2
    /\ Len(result.value) = 2

(***************************************************************************)
(* Properties of _split_text_into_chunks and _combine_chunks_to_limit      *)
(***************************************************************************)
SplitReturned == last_step = "split"

LimitReturned == last_step = "limit"

\* no line of t is longer than m
NoLongLine(t, m) ==
    \A i \in 1 .. Len(Split(t, "\n")) : Len(Split(t, "\n")[i]) <= m

\* the boundary-aware path was taken: the line accumulation gave one chunk
\* for a text longer than max_chars, and _split_at_chapters more than one
BoundaryPath(t, m) ==
    /\ Len(AccumulateLines(Split(t, "\n"), m, <<>>, <<>>)) = 1
    /\ Len(t) > m
    /\ Len(split_at_chapters(t, m)) > 1

\* C11: when no line of the text is longer than max_chars, every chunk that
\* _split_text_into_chunks returns has at most max_chars characters
C11_ChunksWithinMax ==
    (SplitReturned /\ NoLongLine(text, arg_max_chars)) =>
        \A i \in 1 .. Len(chunks) : Len(chunks[i]) <= arg_max_chars

\* a text longer than max_chars, of short lines, was split into several
\* chunks, one of them of exactly max_chars characters
C11_Witness ==
    /\ SplitReturned
    /\ NoLongLine(text, arg_max_chars)
    /\ Len(text) > arg_max_chars
    /\ Len(chunks) >= 2
    /\ \E i \in 1 .. Len(chunks) : Len(chunks[i]) = arg_max_chars

AllWhitespace(s) == \A i \in 1 .. Len(s) : s[i] \in Whitespace

\* t is the chunks of cs one after the other, in their order, with nothing
\* but whitespace before the first, between two of them and after the last
RECURSIVE Rebuilds(_, _)
Rebuilds(t, cs) ==
    IF cs = <<>> THEN AllWhitespace(t)
    ELSE \E k \in 0 .. Len(t) - Len(Head(cs)) :
            /\ AllWhitespace(SubSeq(t, 1, k))
            /\ SubSeq(t, k + 1, k + Len(Head(cs))) = Head(cs)
            /\ Rebuilds(SubSeq(t, k + Len(Head(cs)) + 1, Len(t)), Tail(cs))

\* C12: the chunks that _split_text_into_chunks returns, put one after the
\* other in their order, are the text but for whitespace at the edges of
\* the chunks: nothing is dropped, repeated or moved, whether the chunks
\* come from the line accumulation or from _split_at_chapters
C12_ChunksRebuildText ==
    SplitReturned => Rebuilds(text, chunks)

\* _split_at_chapters cut a text at a heading it found, into pieces that
\* rebuild the text
C12_Witness ==
    /\ SplitReturned
    /\ BoundaryPath(text, arg_max_chars)
    /\ SortedPositions(text, 0) # <<>>
    /\ Len(chunks) >= 2
    /\ Rebuilds(text, chunks)

\* C13: _combine_chunks_to_limit called with a list of at most max_chunks
\* chunks returns that list as it is; calling it again on what it returned
\* changes nothing, and a list of one chunk comes back as it is
C13_BoundedListUnchanged ==
    (LimitReturned /\ Len(limit_input) <= arg_max_chunks) =>
        chunks = limit_input

\* a list of several chunks, no longer than max_chunks, was passed and
\* came back
C13_Witness ==
    /\ LimitReturned
    /\ Len(limit_input) >= 2
    /\ Len(limit_input) <= arg_max_chunks
    /\ chunks = limit_input

\* out is the list ins cut into runs of one or more adjacent chunks, each
\* run joined with a blank line, the runs in the order of ins
RECURSIVE IsGrouping(_, _)
IsGrouping(ins, out) ==
    IF out = <<>> THEN ins = <<>>
    ELSE \E k \in 1 .. Len(ins) :
            /\ Head(out) = Join(SubSeq(ins, 1, k), BlankLine)
            /\ IsGrouping(SubSeq(ins, k + 1, Len(ins)), Tail(out))

\* C14: _combine_chunks_to_limit called with more than max_chunks chunks
\* (max_chunks >= 1) returns at most max_chunks chunks; each is a run of
\* adjacent chunks of the list passed, joined with a blank line, the runs
\* follow the order of the list and every chunk passed is in exactly one
C14_LimitGroupsAdjacent ==
    (LimitReturned /\ Len(limit_input) > arg_max_chunks) =>
        /\ Len(chunks) <= arg_max_chunks
        /\ IsGrouping(limit_input, chunks)

\* six chunks were limited to three
C14_Witness ==
    /\ LimitReturned
    /\ Len(limit_input) = 6
    /\ arg_max_chunks = 3
    /\ Len(chunks) \in 2 .. 3
    /\ IsGrouping(limit_input, chunks)

(***************************************************************************)
(* Further properties of get_summary                                       *)
(***************************************************************************)
\* C15: for a text longer than MAX_SUMMARY_CHARS with no line longer than
\* that, the chunks sent as summarization requests, after the split and
\* the limit, are between 1 and the maximum number of chunks, and each has
\* at most MAX_SUMMARY_CHARS characters
C15_SubmittedChunksBounded ==
    (/\ caller = "chunk"
     /\ Len(text) > MaxSummaryChars
     /\ NoLongLine(text, MaxSummaryChars)) =>
        /\ Len(chunks) \in 1 .. MaxSummaryChunks
        /\ prompt.body = chunks[prompt.num]
        /\ Len(prompt.body) <= MaxSummaryChars

(***************************************************************************)
(* Properties of _update_usage and of the construction                     *)
(***************************************************************************)
\* the latest step was a requests.post whose outcome _update_usage was
\* called for: with success = True at line 104, with success = False at
\* line 115
UsageUpdated == last_step = "post" /\ last_outcome \in {"ok", "bad_body", "exception"}

\* C16: every call _update_usage(key_name, success) adds exactly 1 to the
\* key's requests, adds exactly 1 to its errors if success is false and
\* nothing if it is true, leaves the other key's counters alone, and sets
\* the key's last_used to the current time (what has passed since is the
\* sleep of line 121, if the call went on to it)
C16_UsageRecorded ==
    [][UsageUpdated' =>
        /\ key_usage'[key_name].requests = key_usage[key_name].requests + 1
        /\ key_usage'[key_name].errors =
               IF last_outcome' = "ok" THEN key_usage[key_name].errors
               ELSE key_usage[key_name].errors + 1
        /\ \A n \in KeyNames \ {key_name} : key_usage'[n] = key_usage[n]
        /\ since_last_used'[key_name] = IF pc' = "select" THEN 1 ELSE 0]_vars

\* a key has a failed and a successful request recorded, the latest just now
C16_Witness ==
    /\ UsageUpdated
    /\ last_outcome = "ok"
    /\ key_usage[key_name] = [requests |-> 2, errors |-> 1]
    /\ since_last_used[key_name] = 0

\* nothing of the orchestrator has run: no key was selected, no request
\* was posted, no call was started
NothingRan ==
    /\ last_step = "init"
    /\ pc = "idle"
    /\ calls = 0
    /\ key_name = "none"
    /\ post_log = <<>>
    /\ key_usage = InitialUsage

\* C17: with neither token set, HybridAI() raises the configuration error
\* and no key is ever selected nor any request posted; with at least one
\* token set the construction succeeds, and the orchestrator it leaves has
\* every usage counter at zero
C17_ConstructionNeedsKey ==
    /\ (~api_key_1 /\ ~api_key_2) => (~ai_available /\ NothingRan)
    /\ (api_key_1 \/ api_key_2) =>
           (ai_available /\ (last_step = "init" => NothingRan))

\* neither token is set and the construction has failed
C17_Witness == ~api_key_1 /\ ~api_key_2 /\ ~ai_available /\ NothingRan

\* the combining call of the get_summary call that has returned raised:
\* both attempts failed on every model
CombineFailed ==
    /\ last_step = "combine_done"
    /\ response = AllFailedError
    /\ \A k \in KeyNames : ~seen[k].ok

\* what the loop of lines 150-167 keeps for chunk i when its request raised
ChunkFallback(i) == create_fallback_summary(chunks[i], i, Len(chunks))

\* C18: when the combining request fails in both attempts, get_summary
\* returns (and does not raise) the summaries kept for the chunks, one per
\* chunk in the order of the chunks, joined with blank lines under the
\* heading "## Combined Summary"
C18_CombineFailureConcatenates ==
    CombineFailed =>
        /\ SummaryReturned
        /\ ~result.raised
        /\ Len(summaries) = Len(chunks)
        /\ \A i \in 1 .. Len(chunks) :
              IF chunk_raised[i] THEN summaries[i] = ChunkFallback(i)
              ELSE summaries[i] \in SummaryReplies \cup {ChunkFallback(i)}
        /\ result.value =
              <<"##", " Combined Summary", "\n", "\n">> \o
                  Join(summaries, BlankLine)

\* three chunks, the request of the second raised and the other two were
\* answered; then the combining request failed
C18_Witness ==
    /\ CombineFailed
    /\ Len(chunks) = 3
    /\ chunk_raised = <<FALSE, TRUE, FALSE>>
    /\ summaries[1] \in SummaryReplies
    /\ summaries[2] = ChunkFallback(2)
    /\ Len(post_log) = 6
    /\ result.value =
          <<"##", " Combined Summary", "\n", "\n">> \o
              Join(summaries, BlankLine)

\* C19: for a text of at most MAX_SUMMARY_CHARS characters get_summary
\* calls the executor exactly once; when that call succeeds get_summary
\* returns its response, and when it fails get_summary returns the local
\* fallback summary of the text, made without another remote request
C19_SingleChunkOneCall ==
    (calls > 0 /\ Len(text) <= MaxSummaryChars) =>
        /\ executor_calls = 1
        /\ caller = "single"
        /\ SummaryReturned =>
               result = [raised |-> FALSE,
                         value |-> IF \E k \in KeyNames : seen[k].ok
                                   THEN last_content
                                   ELSE create_fallback_summary(text, 1, 1)]

\* the fraction a / b is at most the fraction c / d
FractionLeq(x, y) == x[1] * y[2] <= y[1] * x[2]

\* the statuses reported while the chunks, or the one text, are processed
ProcessingStatuses == {"Processing chunk", "Processing text..."}

\* C20: the fractions that one get_summary call passes to the progress
\* callback never decrease and lie within [0, 1]; those reported while the
\* chunks are processed are at most 0.8, and those reported for the
\* combination (from "Combining summaries..." or "Using fallback summary
\* generation..." on) lie within [0.8, 1.0]
C20_ProgressNonDecreasing ==
    /\ \A i \in 1 .. Len(progress_log) :
          /\ FractionLeq(<<0, 1>>, progress_log[i].fraction)
          /\ FractionLeq(progress_log[i].fraction, <<1, 1>>)
          /\ progress_log[i].fraction[2] > 0
          /\ IF progress_log[i].status \in ProcessingStatuses
             THEN FractionLeq(progress_log[i].fraction, <<8, 10>>)
             ELSE FractionLeq(<<8, 10>>, progress_log[i].fraction)
    /\ \A i, j \in 1 .. Len(progress_log) :
          i < j => FractionLeq(progress_log[i].fraction,
                               progress_log[j].fraction)

\* three chunks were processed and their summaries combined: the callback
\* was called with 8/30, 16/30, 24/30, then 9/10 and 10/10
C20_Witness ==
    /\ SummaryReturned
    /\ progress_callback
    /\ Len(chunks) = 3
    /\ Len(progress_log) = 5
    /\ progress_log[3] = [fraction |-> <<24, 30>>,
                          status |-> "Processing chunk"]
    /\ progress_log[4].status = "Combining summaries..."
    /\ progress_log[5].fraction = <<10, 10>>

(***************************************************************************)
(* Further properties of _split_text_into_chunks and                       *)
(* _combine_chunks_to_limit                                                *)
(***************************************************************************)
\* the text is longer than max_chars and the line accumulation left it as
\* one chunk
OneChunkTooLong(t, m) ==
    /\ Len(AccumulateLines(Split(t, "\n"), m, <<>>, <<>>)) = 1
    /\ Len(t) > m

\* C22: for a text longer than max_chars that the line accumulation left
\* as one chunk, every chunk _split_text_into_chunks returns has at most
\* max_chars characters: a piece between two headings, and the piece after
\* the last heading, is cut into slices when it is longer, and a text with
\* no heading is cut into slices of at most max_chars characters
C22_BoundaryChunksWithinMax ==
    (SplitReturned /\ OneChunkTooLong(text, arg_max_chars)) =>
        \A i \in 1 .. Len(chunks) : Len(chunks[i]) <= arg_max_chars

\* the least integer that is at least a / b
CeilDiv(a, b) == (a + b - 1) \div b

\* ins merged in groups of size adjacent chunks, the last group taking
\* what is left
GroupsOf(ins, size) ==
    [g \in 1 .. CeilDiv(Len(ins), size) |->
        Join(SubSeq(ins, (g - 1) * size + 1, Min(g * size, Len(ins))),
             BlankLine)]

\* C23: _combine_chunks_to_limit called with more than max_chunks chunks
\* merges adjacent chunks in groups of exactly
\* ceil(len(chunks) / max_chunks), the last group possibly smaller, also
\* when len(chunks) is a multiple of max_chunks
C23_GroupsOfCeiling ==
    (LimitReturned /\ Len(limit_input) > arg_max_chunks) =>
        chunks = GroupsOf(limit_input,
                          CeilDiv(Len(limit_input), arg_max_chunks))

(***************************************************************************)
(* Further properties of generate_mcqs                                     *)
(***************************************************************************)
\* the remote call of the generate_mcqs call that has returned succeeded
McqRemoteSucceeded == McqReturned /\ \E k \in KeyNames : seen[k].ok

\* what the text from the first '[' to the last ']' of resp decodes to
DecodedArray(resp) ==
    json_loads(Slice(resp, Find(resp, "["), RFind(resp, "]") + 1))

\* resp holds a JSON array that decodes
HasDecodableArray(resp) == Find(resp, "[") # -1 /\ DecodedArray(resp).ok

\* q has a question, options and an answer, exactly 4 options, and the
\* answer is one of the options
WellFormedQuestion(q) ==
    /\ q.t = "obj"
    /\ {"question", "options", "answer"} \subseteq DOMAIN q.v
    /\ q.v.options.t = "arr"
    /\ Len(q.v.options.v) = 4
    /\ \E i \in 1 .. 4 : q.v.options.v[i] = q.v.answer

\* C25: when the remote call succeeds and its response holds a JSON array
\* that decodes, generate_mcqs returns the elements of that array that have
\* a question, options and an answer, exactly 4 options and the answer
\* among them, in the order of the response, cut to the first
\* num_questions; the other elements are dropped
C25_ValidElementsReturned ==
    (McqRemoteSucceeded /\ HasDecodableArray(response)) =>
        LET valid == SelectSeq(DecodedArray(response).value.v,
                               WellFormedQuestion)
        IN  result = [raised |-> FALSE,
                      value |-> SubSeq(valid, 1,
                                       Min(num_questions, Len(valid)))]

\* q is a question that lines 552-565 can make of the sentence: an answer
\* taken from the terms, the sentence with the answer replaced by the blank,
\* and as options the answer and min(3, len(terms) - 1) other terms
IsFallbackQuestion(q, sentence, terms) ==
    /\ q.t = "obj"
    /\ DOMAIN q.v = {"question", "options", "answer"}
    /\ q.v.answer.t = "str"
    /\ q.v.answer.v \in terms
    /\ q.v.question = JStr(<<"Fill in the blank: ">>
                               \o Replace(sentence, q.v.answer.v, Blank))
    /\ q.v.options.t = "arr"
    /\ Len(q.v.options.v) = Min(3, Cardinality(terms) - 1) + 1
    /\ \A i \in 1 .. Len(q.v.options.v) :
          /\ q.v.options.v[i].t = "str"
          /\ q.v.options.v[i].v \in terms
          /\ \A j \in 1 .. Len(q.v.options.v) :
                q.v.options.v[i] = q.v.options.v[j] => i = j
    /\ \E i \in 1 .. Len(q.v.options.v) : q.v.options.v[i] = q.v.answer

\* qs is a list that _create_fallback_mcqs(s, num) can return: one
\* fill-in-the-blank question for each of the first num sentences of s, and
\* none when s has no capitalised term
IsFallbackOutput(qs, s, num) ==
    LET terms == key_terms(s)
        sentences == Sentences(s)
    IN  IF terms = {} THEN qs = <<>>
        ELSE /\ Len(qs) = Max(0, Min(num, Len(sentences)))
             /\ \A i \in 1 .. Len(qs) :
                   IsFallbackQuestion(qs[i], sentences[i], terms)

\* q is a question as line 554 words it
IsFillInTheBlank(q) ==
    /\ q.t = "obj"
    /\ DOMAIN q.v = {"question", "options", "answer"}
    /\ q.v.question.t = "str"
    /\ Len(q.v.question.v) > 0
    /\ q.v.question.v[1] = "Fill in the blank: "

\* C26: generate_mcqs never raises; when the remote call failed, or its
\* response has no '[' or no ']' or does not decode between them, it
\* returns through one of the calls of _create_fallback_mcqs on the text the
\* request was built from (lines 535, 538): at most num_questions
\* questions, each a fill-in-the-blank question
C26_FallbackWhenNoArray ==
    McqReturned =>
        /\ ~result.raised
        /\ \/ /\ last_step = "mcq_fallback"
              /\ Len(result.value) <= num_questions
              /\ \A i \in 1 .. Len(result.value) :
                    IsFillInTheBlank(result.value[i])
           \/ McqRemoteSucceeded /\ HasDecodableArray(response)

\* the response had an opening bracket and no closing one, and two
\* fill-in-the-blank questions were made of a text of two sentences
C26_Witness ==
    /\ McqRemoteSucceeded
    /\ Find(response, "[") # -1
    /\ RFind(response, "]") = -1
    /\ last_step = "mcq_fallback"
    /\ Len(result.value) = 2
    /\ IsFallbackOutput(result.value, mcq_text, num_questions)

\* generate_mcqs has returned a list made by _create_fallback_mcqs
McqFellBack == McqReturned /\ last_step = "mcq_fallback"

\* C27: of every question _create_fallback_mcqs made, the answer is a term
\* that occurs in the sentence the question was made of, and the question
\* is that sentence with the term replaced by the blank
C27_AnswerFromSentence ==
    McqFellBack =>
        \A i \in 1 .. Len(result.value) :
            LET q == result.value[i]
                sentence == Sentences(mcq_text)[i]
            IN  /\ Contains(sentence, q.v.answer.v)
                /\ Contains(q.v.question.v, Blank)
                /\ q.v.question.v = <<"Fill in the blank: ">>
                       \o Replace(sentence, q.v.answer.v, Blank)

(***************************************************************************)
(* Properties of _sample_text_for_mcqs                                     *)
(***************************************************************************)
\* generate_mcqs was called and line 460 sampled the text
McqSampled == calls > 0 /\ Len(text) > MaxMcqChars

\* the sampling of the text came to the choice of a section (line 618)
ReachedSectionChoice ==
    /\ McqSampled
    /\ Len(FilteredParagraphs(text)) > 3
    /\ ContentParagraphs(text) # <<>>

\* C28: when the sampling comes to the choice of a section, the section
\* sampled first is section_choices[regenerate_count % 4], and the range of
\* paragraphs chosen for regenerate_count + 1 is another one than the range
\* chosen for regenerate_count
C28_NextOffsetOtherSection ==
    ReachedSectionChoice =>
        LET content_paragraphs == ContentParagraphs(text)
            this == primary_section(content_paragraphs, regenerate_count)
            next == primary_section(content_paragraphs, regenerate_count + 1)
        IN  /\ this = section_choices(content_paragraphs)
                          [(regenerate_count % 4) + 1]
            /\ this # next

\* C29: the text generate_mcqs puts into its request is the text it was
\* called with when that has at most MAX_MCQ_CHARS characters, and a sample
\* of at most MAX_MCQ_CHARS characters when it is longer
C29_SampleWithinBudget ==
    calls > 0 =>
        /\ prompt.body = mcq_text
        /\ IF McqSampled THEN Len(mcq_text) <= MaxMcqChars
                         ELSE mcq_text = text

(***************************************************************************)
(* Further properties of get_summary                                       *)
(***************************************************************************)
\* the loop of lines 150-167 has run over every chunk of a text longer than
\* MAX_SUMMARY_CHARS
ChunkLoopEnded ==
    /\ calls > 0
    /\ Len(text) > MaxSummaryChars
    /\ Len(chunk_raised) = Len(chunks)

\* C24: when the loop over the n chunks has ended and the requests of at
\* most half of the chunks raised, get_summary has called _combine_summaries
\* exactly once, after the request of the last chunk, on one summary per
\* chunk in the order of the chunks: the response for a chunk whose request
\* was answered, the local fallback summary of the chunk for a chunk whose
\* request raised
C24_CombineOverChunkSummaries ==
    (ChunkLoopEnded /\ 2 * Cardinality(RaisedChunks) <= Len(chunks)) =>
        /\ combine_calls = 1
        /\ caller = "combine"
        /\ executor_calls = Len(chunks) + 1
        /\ prompt.body = Join(summaries, BlankLine)
        /\ Len(summaries) = Len(chunks)
        /\ \A i \in 1 .. Len(chunks) :
              IF chunk_raised[i] THEN summaries[i] = ChunkFallback(i)
              ELSE summaries[i] \in SummaryReplies

(***************************************************************************)
(* Properties of the rate gate under concurrent callers                    *)
(***************************************************************************)
\* C21: whichever way the calls of two threads on one orchestrator
\* interleave, _get_available_api_key never returns a key less than
\* MIN_REQUEST_INTERVAL seconds after it last returned one, to the same
\* thread or to the other
C21_GrantsSpaced == grant_gap >= MIN_REQUEST_INTERVAL

(***************************************************************************)
(* Properties of the failure test of get_summary                           *)
(***************************************************************************)
\* C38: of the chunks get_summary has processed, those counted in
\* api_failures and replaced by their local fallback summary are exactly
\* those whose request raised: a chunk whose request was answered is
\* neither counted nor replaced, whatever the answer says
C38_FailedIffRaised ==
    /\ Len(summaries) = Len(chunk_raised)
    /\ api_failures = Cardinality(RaisedChunks)
    /\ \A i \in 1 .. Len(summaries) :
          chunk_raised[i] <=> summaries[i] = ChunkFallback(i)

\* C34: when get_summary was called with a progress callback and has
\* returned, the callback was called, and the fraction of its last call is
\* 1.0
C34_LastFractionOne ==
    (SummaryReturned /\ progress_callback) =>
        /\ progress_log # <<>>
        /\ progress_log[Len(progress_log)].fraction = <<10, 10>>

(***************************************************************************)
(* Further properties of the executor and the credential pool             *)
(***************************************************************************)
\* the step is a requests.post answered with HTTP 200 and a body that does
\* not hold choices[0].message.content
BadBodyPost ==
    /\ pc = "request"
    /\ last_step' = "post"
    /\ last_outcome' = "bad_body"

\* C32: a response with HTTP 200 whose body does not hold
\* choices[0].message.content is a failed attempt: one request and one error
\* are recorded on the key in use and nothing on the other key, so no
\* success is recorded, the call does not return, and when a model is left
\* in models_to_try the next request goes to it on the same key
C32_BadBodyIsFailure ==
    [][BadBodyPost =>
          /\ key_usage' = [key_usage EXCEPT ![key_name] =
                              [requests |-> @.requests + 1,
                               errors |-> @.errors + 1]]
          /\ pc' # "returned"
          /\ model_idx < Len(models_to_try) =>
                /\ pc' = "request"
                /\ model_idx' = model_idx + 1
                /\ key_name' = key_name
                /\ attempt' = attempt]_vars

\* the first model answered 200 with such a body, and the second model is
\* next
C32_Witness ==
    /\ last_step = "post"
    /\ last_outcome = "bad_body"
    /\ seen_200
    /\ pc = "request"
    /\ model_idx = 2
    /\ key_usage[key_name].errors = usage_at_call[key_name].errors + 1
    /\ Successes(key_usage[key_name]) = Successes(usage_at_call[key_name])

(* Termination of the executor and of get_summary *)
\* the requests the executor call underway may still post (lines 72-81)
OwnPostsLeft ==
    IF pc \in {"select", "request"}
    THEN 2 * Len(models_to_try) - Len(post_log)
    ELSE 0

\* the requests the executor calls still to come may post: one call for
\* every later chunk and one that combines (lines 150-159, 176-179)
LaterPostsLeft ==
    IF pc # "idle" /\ caller = "chunk"
    THEN 2 * Len(FALLBACK_MODELS) * (Len(chunks) - chunk_i)
    ELSE 0

PostsLeft == OwnPostsLeft + LaterPostsLeft

\* the steps still to come are at most this many
SummaryRank ==
    3 * PostsLeft + (IF CallEnded THEN 2 ELSE IF pc = "select" THEN 1 ELSE 0)

\* the number of chunks of the get_summary call, one for a text that is
\* not split
NumChunks == IF caller = "single" THEN 1 ELSE Len(chunks)

\* C33: every remote request returning, an executor call ends after at most
\* max_retries * |models_to_try| requests and a get_summary call over n
\* chunks after at most (n + 1) * max_retries * |models| requests: while
\* get_summary runs one of its steps can be taken, the requests it may still
\* post are never fewer than none and never more than the bound, and every
\* step lowers a rank that cannot fall below zero and that a request can
\* lower only by taking one of the requests left
C33_TerminatesWithinBound ==
    /\ [](pc # "idle" =>
            /\ \/ pc \in {"select", "request"}
               \/ (CallEnded /\ caller \in {"chunk", "combine", "single"})
            /\ OwnPostsLeft >= 0
            /\ Len(post_log) <= 2 * Len(models_to_try)
            /\ PostsLeft <= (NumChunks + 1) * 2 * Len(FALLBACK_MODELS)
            /\ SummaryRank >= 0)
    /\ [][pc # "idle" => SummaryRank' < SummaryRank]_vars

C33_Witness ==
    /\ SummaryReturned
    /\ last_step = "combine_done"
    /\ Len(chunks) = MaxSummaryChunks
    /\ Len(post_log) = 2 * Len(FALLBACK_MODELS)
    /\ \A i \in 1 .. Len(chunk_raised) : chunk_raised[i] = (i = 1)

(* Properties of the usage counters *)
\* lines 812 and 817: success_rate as the fraction <<numerator, denominator>>
success_rate(u) == <<Successes(u) * 100, Max(1, u.requests)>>

\* C35: used by one caller at a time, every credential has
\* 0 <= errors <= requests, so its success_rate lies in [0, 100], and is 0
\* while no request of it was recorded
C35_ErrorsWithinRequests ==
    \A k \in KeyNames :
        LET u == key_usage[k]
            rate == success_rate(u)
        IN  /\ 0 <= u.errors
            /\ u.errors <= u.requests
            /\ 0 <= rate[1]
            /\ rate[1] <= 100 * rate[2]
            /\ u.requests = 0 => rate[1] = 0

C35_Witness ==
    /\ pc = "idle"
    /\ key_usage["key_1"].requests > 0
    /\ key_usage["key_1"].errors = key_usage["key_1"].requests
    /\ key_usage["key_2"].errors > 0
    /\ key_usage["key_2"].errors < key_usage["key_2"].requests

\* C36: with both credentials configured and no failure recorded, the
\* request counts differ by at most one, key_1 never behind, and a call that
\* follows calls of one recorded request each uses key_1 when it is an odd
\* call and key_2 when it is an even one
C36_AlternatesFromFirst ==
    (/\ api_key_1
     /\ api_key_2
     /\ \A k \in KeyNames : key_usage[k].errors = 0) =>
        LET r1 == key_usage["key_1"].requests
            r2 == key_usage["key_2"].requests
        IN  /\ r1 - r2 \in {0, 1}
            /\ (\/ pc = "request" /\ calls = r1 + r2 + 1
                \/ pc = "returned" /\ calls = r1 + r2) =>
                   key_name = IF calls % 2 = 1 THEN "key_1" ELSE "key_2"

C36_Witness ==
    /\ api_key_1
    /\ api_key_2
    /\ pc = "returned"
    /\ calls = 2
    /\ key_name = "key_2"
    /\ Len(post_log) = 1
    /\ key_usage = [k \in KeyNames |-> [requests |-> 1, errors |-> 0]]

\* the credentials the call has posted a request with
PostedKeys == {post_log[i][1] : i \in 1 .. Len(post_log)}

\* C37: the counters change only where an outcome is recorded: choosing a
\* credential changes none, recording an outcome changes the counters of the
\* credential of the request alone and leaves the other's last use where it
\* was, and a call changes the counters only of credentials it has chosen
C37_CountersFrame ==
    /\ [](\A k \in KeyNames :
            key_usage[k] # usage_at_call[k] => k \in PostedKeys)
    /\ [][/\ last_step' = "select" =>
                /\ key_usage' = key_usage
                /\ \A k \in KeyNames : since_last_used'[k] >= since_last_used[k]
          /\ key_usage' # key_usage =>
                /\ last_step' = "post"
                /\ pc = "request"
                /\ \A k \in KeyNames \ {key_name} :
                      /\ key_usage'[k] = key_usage[k]
                      /\ since_last_used'[k] >= since_last_used[k]]_vars

C37_Witness ==
    /\ api_key_1
    /\ api_key_2
    /\ last_step = "post"
    /\ pc = "returned"
    /\ calls = 2
    /\ PostedKeys = KeyNames
    /\ key_name = "key_2"
    /\ key_usage["key_1"].errors = usage_at_call["key_1"].errors + 1
    /\ key_usage["key_2"].requests = usage_at_call["key_2"].requests + 1

(***************************************************************************)
(* HybridAI.answer_question (lines 781-804)                                *)
(***************************************************************************)
\* the contexts and the questions answer_question is called with
QaContexts == UNION {[1 .. n -> {"a"}] : n \in 0 .. MaxQaChars + 2}

QaQuestions == {<<"q">>, <<"q", "?">>}

\* lines 785-786 with the context cut nowhere
qa_context_whole(context, max_chars) == context

\* lines 785-786: the context the prompt is built from
qa_context(context, max_chars) ==
    IF Len(context) > max_chars
    THEN SubSeq(context, 1, max_chars) \o <<".", ".", ".">>
    ELSE context

\* lines 788-798
QaPrompt(context, question) ==
    [kind |-> "qa", body |-> context \o <<"Question: ">> \o question,
     num |-> 0, total |-> 0]

\* line 804
QaErrorText(e) == <<"Error generating answer: ">> \o e

\* answer_question(context, question) up to its request (lines 783-801)
CallAnswerQuestion ==
    /\ pc = "idle"
    /\ ai_available
    /\ calls = 0
    /\ calls' = calls + 1
    /\ last_step' = "call"
    /\ \E context \in QaContexts, question \in QaQuestions :
        /\ text' = context
        /\ BeginCall("qa", "None",
                     QaPrompt(qa_context(context, MaxQaChars), question))
    /\ UNCHANGED <<config_vars, pool_vars, chunks, chunk_i, summaries,
                   api_failures, progress_callback, progress_log,
                   chunk_raised, combine_calls, mcq_vars, split_vars,
                   thread_vars, result, since_last_post, last_gap>>

\* lines 801-804 once the executor has ended
AnswerDone ==
    /\ CallEnded
    /\ caller = "qa"
    /\ result' = [raised |-> FALSE,
                  value |-> <<IF pc = "returned" THEN response
                                                 ELSE QaErrorText(response),
                              qa_context(text, MaxQaChars)>>]
    /\ pc' = "idle"
    /\ last_step' = "qa_done"
    /\ UNCHANGED <<config_vars, pool_vars, caller, prompt, models_to_try,
                   attempt, model_idx, key_name, response, pipeline_vars,
                   calls, call_hist_vars, since_last_post, last_gap>>

\* answer_question called once on a newly constructed orchestrator
NextQa ==
    \/ CallAnswerQuestion
    \/ Select
    \/ PostAny
    \/ AnswerDone

SpecQa == Init /\ [][NextQa]_vars

(* Properties of answer_question *)
QaReturned == pc = "idle" /\ caller = "qa"

\* the context a call with the argument t may send and return: t when it
\* has at most MaxQaChars characters, otherwise its first MaxQaChars
\* characters and three full stops
IsTruncationOf(c, t) ==
    IF Len(t) <= MaxQaChars THEN c = t
    ELSE /\ Len(c) = MaxQaChars + 3
         /\ \A i \in 1 .. MaxQaChars : c[i] = t[i]
         /\ \A i \in MaxQaChars + 1 .. MaxQaChars + 3 : c[i] = "."

\* C31: answer_question raises nothing: the context is cut to at most
\* MAX_QA_CHARS characters and a marker before the request, whose prompt
\* begins with it, and the call returns the answer, or, when the executor
\* raised, a text that begins "Error generating answer: ", together with
\* that same cut context
C31_AnswerNeverRaises ==
    /\ caller = "qa" =>
          \E n \in 0 .. MaxQaChars + 3 :
                /\ n < Len(prompt.body)
                /\ IsTruncationOf(SubSeq(prompt.body, 1, n), text)
                /\ prompt.body[n + 1] = "Question: "
    /\ QaReturned =>
          /\ ~result.raised
          /\ Len(result.value) = 2
          /\ IsTruncationOf(result.value[2], text)
          /\ result.value[2] \o <<"Question: ">> =
                SubSeq(prompt.body, 1, Len(result.value[2]) + 1)
          /\ IF response \in {AllFailedError, NoKeysError}
             THEN result.value[1] = <<"Error generating answer: ">> \o response
             ELSE result.value[1] = response /\ response = last_content

C31_Witness ==
    /\ QaReturned
    /\ Len(text) = MaxQaChars + 2
    /\ response = AllFailedError
    /\ result.value[1][1] = "Error generating answer: "
    /\ Len(result.value[2]) = MaxQaChars + 3

====
